---- MODULE Spec2Model ----
(***************************************************************************)
(* Capability dispatch (HSRBManager, hsrb_process_modules.py), the         *)
(* belief-state synchronisation between the BulletWorld and Giskard        *)
(* (giskard.py), and two loops of the receptionist demo.                   *)
(*                                                                         *)
(* The specifications share the variables:                                 *)
(*   SpecSync      the functions of giskard.py called one after the other  *)
(*                 on a World Model that collaborators change between the  *)
(*                 calls;                                                  *)
(*   SpecRepair    SpecSync with sync_worlds as the only function called;  *)
(*   SpecProc      concurrent callers going through HSRBManager and        *)
(*                 ProcessModule.execute, every _execute being one step;   *)
(*   SpecGoal      one caller, every call made by an _execute being a      *)
(*                 step; the caller also uses DonbotManager and calls the  *)
(*                 goal functions of giskard.py itself;                    *)
(*   SpecGoalFair  SpecGoal with a caller that keeps taking its steps;     *)
(*   SpecRemove    SpecRepair with removing_of_objects;                    *)
(*   SpecOnce      SpecProc with callers that ask once each, and           *)
(*   SpecOnceFair  with executions that end and waiters that get the lock; *)
(*   SpecTurn      concurrent callers of two real capabilities that send a *)
(*                 goal, every call made by an _execute being a step;      *)
(*   SpecRace      SpecTurn with every remote call of sync_worlds a step;  *)
(*   SpecDemo      the receptionist demo: welcome_guest and the detection  *)
(*                 loop of step 7, every wait and every detection a step.  *)
(***************************************************************************)
EXTENDS Integers, Sequences, FiniteSets, TLC

\* ------------------------------------------------------------------ bounds
\* poses are 0..MaxPose
MaxPose == 1
\* number of concurrent callers (threads)
NumCallers == 2
\* the repeat loop of welcome_guest is followed for MaxAsks requests to repeat
MaxAsks == 3
\* the detection loop of step 7 is followed for MaxTries failed detections
MaxTries == 6

Poses == 0..MaxPose
Callers == 1..NumCallers

\* ------------------------------------------------------- the World Model
\* BulletWorld objects: a name and the id the world gave them.
RobotObj == [name |-> "hsrb", id |-> 0]
CupObj == [name |-> "cup", id |-> 1]
BowlObj == [name |-> "bowl", id |-> 2]
TableObj == [name |-> "table", id |-> 9]
Objects == {RobotObj, CupObj, BowlObj, TableObj}

\* the objects that simulation and perception move in this model; the others
\* keep pose 0
Movable == {RobotObj, CupObj}

\* obj.name + "_" + str(obj.id): the pair stands for the concatenation, which
\* is injective because the id is rendered as a decimal number.
ObjName(obj) == <<obj.name, obj.id>>

\* robot_description.i.name: the name of the robot group in Giskard; it has no
\* "_<id>" suffix and so differs from every ObjName.
RobotName == <<"hsrb">>

GroupNames == {ObjName(o) : o \in Objects} \cup {RobotName}

VARIABLES
    objects,    \* BulletWorld.current_bullet_world.objects, as a set: the order
                \* of the list is any order (see SyncWorlds)
    pose,       \* World Model pose of every object (0 while it is not loaded)
    groups,     \* the group names of Giskard's belief state
    gpose,      \* the pose Giskard holds for every group (0 while absent)
    last,       \* the giskard.py operation that ran last, and how it ended
    pre,        \* objects, pose, groups and gpose when the last sync_worlds or
                \* spawn_object started
    calls,      \* the belief-state mutations the last operation sent to Giskard
    prevSyncOk, \* the operation before the last was a sync_worlds that returned
    partial,    \* a sync_worlds left Giskard short of a body (a spawn raised or
                \* was answered with an error) and none returned since
    mode,       \* ProcessModuleManager.execution_type
    pc,         \* where every caller is: "idle", "acquire", "run", "done"
    cap,        \* the capability the caller asked the manager for
    held,       \* the locks that are held: pairs <<lock, caller>>
    todo,       \* the calls the caller's _execute still has to make
    trace,      \* the calls the caller's invocation has made
    outcome,    \* how the caller's invocation ended: "returned" or "raised"
    nrel,       \* how often the invocation released its lock
    intent,     \* the designator the caller handed over: "ok" or "malformed"
    answer,     \* the MoveResult of the caller's plan_and_execute: "none",
                \* "pending" while Giskard has not answered, or its error code
    ret,        \* what execute returned to the caller: "None", "Object", or
                \* "none" while it has not returned
    joints,     \* per caller, the arm poses of its MoveArmJointsMotion designator
                \* and the joints its _execute applied or put in its goal
    cmd_seq,    \* what the one giskard_wrapper of giskard.py holds for the next
                \* plan_and_execute: the callers whose collision policy and
                \* whose goal were set and not sent yet
    attached,   \* the objects attached to the robot in the World Model
    dpc,        \* where the receptionist demo is: "off" while it does not run
    callback,   \* the global callback: an answer of the speech recogniser arrived
    response,   \* the global response: the fields of that answer
    repeat_i,   \* the i of welcome_guest's repeat loop
    asked,      \* how often that loop asked the guest to repeat
    guest,      \* the HumanDescription welcome_guest fills: name and fav_drink
    counter,    \* the counter of the detection loop of step 7
    found_guest,
    found_host,
    unknown     \* the face ids of the last detection that are neither guest1's
                \* nor the host's

syncVars == <<objects, pose, groups, gpose, last, pre, calls, prevSyncOk, partial>>
obsVars == <<intent, answer, ret, joints, cmd_seq, attached>>
demoVars == <<dpc, callback, response, repeat_i, asked, guest,
              counter, found_guest, found_host, unknown>>
procVars == <<mode, pc, cap, held, todo, trace, outcome, nrel, intent, answer, ret,
              joints, cmd_seq, attached>>
vars == <<objects, pose, groups, gpose, last, pre, calls, prevSyncOk, partial,
          mode, pc, cap, held, todo, trace, outcome, nrel, intent, answer, ret,
          joints, cmd_seq, attached,
          dpc, callback, response, repeat_i, asked, guest,
          counter, found_guest, found_host, unknown>>

\* the objects of S as a list, by id
RECURSIVE ById(_)
ById(S) ==
    IF S = {} THEN <<>>
    ELSE LET m == CHOOSE o \in S : \A q \in S : o.id <= q.id
         IN  <<m>> \o ById(S \ {m})

NoPre == [objects |-> {}, pose |-> [o \in Objects |-> 0],
          groups |-> {}, gpose |-> [n \in GroupNames |-> 0], partial |-> FALSE]

Snapshot == [objects |-> objects, pose |-> pose, groups |-> groups, gpose |-> gpose,
             partial |-> partial]

\* ------------------------------------------- Giskard (the remote service)
\* giskard_wrapper.clear_world(): back to the world Giskard was launched with,
\* the robot alone.
clear_world(g) == {RobotName}

\* giskard_wrapper.add_urdf(name, urdf, pose): a new group; a name that exists
\* already is answered with an error and changes nothing.
add_urdf(g, n) == g \cup {n}

\* giskard_wrapper.remove_group(name)
remove_group(g, n) == g \ {n}

\* -------------------------------------------------------------- giskard.py
\* sync_worlds, line 50: the names of ALL objects, the robot's included.
bullet_object_names(objs) == {ObjName(o) : o \in objs}

\* NeedsClear with the robot group not spared (the "- robot_name" left out)
NeedsClear_NoRobotName(objs, g) == g \ bullet_object_names(objs) # {}

\* sync_worlds, lines 51-53: the test that triggers clear_world
NeedsClear(objs, g) == (g \ bullet_object_names(objs)) \ {RobotName} # {}

\* ToSpawn with the membership test inverted ("if name in groups")
ToSpawn_Inverted(objs, g) == {o \in objs : o # RobotObj /\ ObjName(o) \in g}

\* ToSpawn without the membership test: every non-robot object is spawned
ToSpawn_All(objs, g) == {o \in objs : o # RobotObj}

\* ToSpawn without the "obj == BulletWorld.robot" test
ToSpawn_RobotToo(objs, g) == {o \in objs : ObjName(o) \notin g}

\* initial_adding_objects: the objects it spawns, given the group names g it
\* read at its start.
ToSpawn(objs, g) == {o \in objs : o # RobotObj /\ ObjName(o) \notin g}

\* the add_urdf calls for the objects of the list sp
SpawnCalls(sp) == [i \in 1..Len(sp) |-> [op |-> "add_urdf", name |-> ObjName(sp[i])]]

\* GroupsAfterClear without the clear_world() call
GroupsAfterClear_NoClear(objs, g) == g

\* sync_worlds, lines 53-54, and the group names initial_adding_objects then
\* reads at line 23
GroupsAfterClear(objs, g) == IF NeedsClear(objs, g) THEN clear_world(g) ELSE g

\* RemotePoses with the pose of every object pushed, spawned or not
RemotePoses_Pushed(gp, new) ==
    [n \in GroupNames |->
        IF \E o \in objects : ObjName(o) = n
        THEN pose[CHOOSE o \in objects : ObjName(o) = n]
        ELSE gp[n]]

\* spawn_object, line 76: the objects of new enter Giskard with the pose they
\* have in the World Model; no other pose is sent.
RemotePoses(gp, new) ==
    [n \in GroupNames |->
        IF \E o \in new : ObjName(o) = n
        THEN pose[CHOOSE o \in new : ObjName(o) = n]
        ELSE gp[n]]

\* the objects initial_adding_objects has to spawn in this call of sync_worlds
Spawnable == ToSpawn(objects, GroupsAfterClear(objects, groups))

\* sync_worlds(): the spawns of done complete and those of rej are answered
\* by Giskard with an error: add_urdf returns the UpdateWorldResponse that
\* carries it, spawn_object drops the response (line 76) and the loop goes on
\* without the group. With done and rej short of the objects to spawn, the
\* next spawn raised (open() of the URDF, or the service call) and sync_worlds
\* is left by that exception with the groups spawned so far in place; the
\* list order of the objects being any order, done and rej are any subsets.
SyncWorldsEffect(done, rej) ==
    LET cleared == NeedsClear(objects, groups)
        g1 == GroupsAfterClear(objects, groups)
        gp1 == IF cleared THEN [n \in GroupNames |-> IF n \in g1 THEN gpose[n] ELSE 0]
                          ELSE gpose
        new == {o \in done : ObjName(o) \notin g1}
    IN  /\ done \cap rej = {}
        /\ (done \cup rej) \subseteq ToSpawn(objects, g1)
        /\ groups' = g1 \cup {ObjName(o) : o \in done}
        /\ gpose' = RemotePoses(gp1, new)

\* the mutations sync_worlds sends when the spawns of done complete and those
\* of rej are answered with an error
SyncWorldsCalls(done, rej) ==
    (IF NeedsClear(objects, groups) THEN <<[op |-> "clear_world", name |-> RobotName]>>
                                    ELSE <<>>) \o SpawnCalls(ById(done \cup rej))

\* SyncWorldsResult that takes the error answer of a spawn for an exception
SyncWorldsResult_ErrorRaises(done, rej) ==
    IF done = ToSpawn(objects, GroupsAfterClear(objects, groups)) THEN "returned"
                                                                  ELSE "raised"

\* sync_worlds returns when every object to spawn was sent: "returned" when
\* every spawn was accepted, "rejected" when it returned although Giskard
\* answered a spawn with an error; "raised" when a spawn raised
SyncWorldsResult(done, rej) ==
    IF done \cup rej = ToSpawn(objects, GroupsAfterClear(objects, groups))
    THEN (IF rej = {} THEN "returned" ELSE "rejected")
    ELSE "raised"

SyncWorlds ==
    /\ \E done \in SUBSET Spawnable : \E rej \in SUBSET (Spawnable \ done) :
        /\ SyncWorldsEffect(done, rej)
        /\ calls' = SyncWorldsCalls(done, rej)
        /\ last' = [op |-> "sync_worlds", result |-> SyncWorldsResult(done, rej)]
        /\ partial' = (SyncWorldsResult(done, rej) # "returned")
    /\ pre' = Snapshot
    /\ prevSyncOk' = (last.op = "sync_worlds" /\ last.result = "returned")
    /\ UNCHANGED <<objects, pose>>
    /\ UNCHANGED procVars
    /\ UNCHANGED demoVars

\* spawn_object(object) on an object of the world; ok = FALSE: open() raised
SpawnObject ==
    /\ \E o \in objects, ok \in BOOLEAN :
        LET n == ObjName(o)
        IN  /\ groups' = IF ok THEN add_urdf(groups, n) ELSE groups
            /\ gpose' = IF ok /\ n \notin groups
                        THEN [gpose EXCEPT ![n] = pose[o]] ELSE gpose
            /\ calls' = IF ok THEN <<[op |-> "add_urdf", name |-> n]>> ELSE <<>>
            /\ last' = [op |-> "spawn_object",
                        result |-> IF ok THEN "returned" ELSE "raised"]
    /\ pre' = Snapshot
    /\ prevSyncOk' = FALSE
    /\ UNCHANGED <<objects, pose, partial>>
    /\ UNCHANGED procVars
    /\ UNCHANGED demoVars

\* remove_object with the group named by the object's name alone
RemoveObject_NameOnly ==
    /\ \E o \in objects :
        LET n == <<o.name>>
        IN  /\ groups' = remove_group(groups, n)
            /\ gpose' = [m \in GroupNames |-> IF m = n THEN 0 ELSE gpose[m]]
            /\ calls' = <<[op |-> "remove_group", name |-> n]>>
    /\ last' = [op |-> "remove_object", result |-> "returned"]
    /\ pre' = NoPre
    /\ prevSyncOk' = FALSE
    /\ UNCHANGED <<objects, pose, partial>>
    /\ UNCHANGED procVars
    /\ UNCHANGED demoVars

\* remove_object(object)
RemoveObject ==
    /\ \E o \in objects :
        LET n == ObjName(o)
        IN  /\ groups' = remove_group(groups, n)
            /\ gpose' = [gpose EXCEPT ![n] = 0]
            /\ calls' = <<[op |-> "remove_group", name |-> n]>>
    /\ last' = [op |-> "remove_object", result |-> "returned"]
    /\ pre' = NoPre
    /\ prevSyncOk' = FALSE
    /\ UNCHANGED <<objects, pose, partial>>
    /\ UNCHANGED procVars
    /\ UNCHANGED demoVars

\* update_pose(object): update_group_pose of a group Giskard does not know
\* is answered with an error
UpdatePose ==
    /\ \E o \in objects :
        LET n == ObjName(o)
        IN  /\ gpose' = IF n \in groups THEN [gpose EXCEPT ![n] = pose[o]]
                                        ELSE gpose
            /\ calls' = <<[op |-> "update_group_pose", name |-> n]>>
    /\ last' = [op |-> "update_pose", result |-> "returned"]
    /\ pre' = NoPre
    /\ prevSyncOk' = FALSE
    /\ UNCHANGED <<objects, pose, groups, partial>>
    /\ UNCHANGED procVars
    /\ UNCHANGED demoVars

\* ------------------------------------- the collaborators of the World Model
WorldStep ==
    /\ last' = [op |-> "world", result |-> "returned"]
    /\ pre' = NoPre
    /\ calls' = <<>>
    /\ prevSyncOk' = FALSE
    /\ UNCHANGED <<groups, gpose, partial>>
    /\ UNCHANGED procVars
    /\ UNCHANGED demoVars

\* an Object is created in the world
AddBody ==
    /\ \E o \in Objects \ objects :
        /\ objects' = objects \cup {o}
        /\ pose' = [pose EXCEPT ![o] = 0]
    /\ WorldStep

\* an Object is removed from the world
RemoveBody ==
    /\ \E o \in objects :
        /\ objects' = objects \ {o}
        /\ pose' = [pose EXCEPT ![o] = 0]
    /\ WorldStep

\* simulation or perception moves an Object
MoveBody ==
    /\ \E o \in objects \cap Movable : \E p \in Poses \ {pose[o]} :
        pose' = [pose EXCEPT ![o] = p]
    /\ UNCHANGED objects
    /\ WorldStep

\* the joints a MoveArmJointsMotion designator can name; a dictionary of
\* joint positions is modelled by its set of keys
ArmJoints == {"arm_lift_joint"}

\* a designator with neither left_arm_poses nor right_arm_poses, nothing sent
NoJoints == [left |-> {}, right |-> {}, goal |-> {}, sent |-> FALSE]

\* the giskard_wrapper with nothing set
NoCmd == [policy |-> {}, goals |-> {}]

\* giskard_wrapper.avoid_all_collisions() called by t: the policy is kept for
\* the next goal that is sent
add_policy(c, t) == [c EXCEPT !.policy = @ \cup {t}]

\* giskard_wrapper.set_*_goal(...) called by t: the goal is kept until
\* plan_and_execute
add_goal(c, t) == [c EXCEPT !.goals = @ \cup {t}]

\* giskard_wrapper.plan_and_execute(): all that is kept is sent to Giskard as
\* one command, and nothing is kept after it
clear_cmds(c) == NoCmd

\* guest1 as the demo declares it (line 48)
guest1 == [name |-> "Lisa", fav_drink |-> "water"]

\* the demo does not run
InitDemoIdle ==
    /\ dpc = "off"
    /\ callback = FALSE
    /\ response = <<>>
    /\ repeat_i = 0
    /\ asked = 0
    /\ guest = guest1
    /\ counter = 0
    /\ found_guest = FALSE
    /\ found_host = FALSE
    /\ unknown = <<>>

InitProcIdle ==
    /\ pc = [t \in Callers |-> "idle"]
    /\ cap = [t \in Callers |-> "none"]
    /\ held = {}
    /\ todo = [t \in Callers |-> <<>>]
    /\ trace = [t \in Callers |-> <<>>]
    /\ outcome = [t \in Callers |-> "none"]
    /\ nrel = [t \in Callers |-> 0]
    /\ intent = [t \in Callers |-> "ok"]
    /\ answer = [t \in Callers |-> "none"]
    /\ ret = [t \in Callers |-> "none"]
    /\ joints = [t \in Callers |-> NoJoints]
    /\ cmd_seq = NoCmd
    /\ attached = {}

\* an empty World Model; Giskard as launched, with the robot alone
InitSync ==
    /\ mode = "simulated"
    /\ InitProcIdle
    /\ InitDemoIdle
    /\ objects = {}
    /\ pose = [o \in Objects |-> 0]
    /\ groups = {RobotName}
    /\ gpose = [n \in GroupNames |-> 0]
    /\ last = [op |-> "init", result |-> "returned"]
    /\ pre = NoPre
    /\ calls = <<>>
    /\ prevSyncOk = FALSE
    /\ partial = FALSE

NextSync ==
    \/ SyncWorlds
    \/ SpawnObject
    \/ RemoveObject
    \/ UpdatePose
    \/ AddBody
    \/ RemoveBody
    \/ MoveBody

SpecSync == InitSync /\ [][NextSync]_vars

\* sync_worlds alone keeps Giskard in step with a World Model that changes
NextRepair ==
    \/ SyncWorlds
    \/ AddBody
    \/ RemoveBody
    \/ MoveBody

SpecRepair == InitSync /\ [][NextRepair]_vars

\* ------------------------------------------------------ removing_of_objects
\* removing_of_objects, lines 37-38: the lambda refers to object_names, the
\* variable the list is being assigned to, and not to its argument: the first
\* object of the world makes it raise NameError; with no object in the world
\* the map is empty and so is object_names.
RemovingRaises(objs) == objs # {}

\* removing_of_objects, line 39: the difference, reached with object_names
\* empty only: every group name Giskard answered, the robot's included
RemovalDiff(objs, g) == IF RemovingRaises(objs) THEN {} ELSE g

\* the names of S as a list (line 39 makes a list of a set, in any order)
RECURSIVE NamesInOrder(_)
NamesInOrder(S) ==
    IF S = {} THEN <<>>
    ELSE LET n == CHOOSE x \in S : TRUE
         IN  <<n>> \o NamesInOrder(S \ {n})

\* the remove_group calls for the names of the list ns
RemoveCalls(ns) == [i \in 1..Len(ns) |-> [op |-> "remove_group", name |-> ns[i]]]

\* removing_of_objects()
RemovingOfObjects ==
    LET diff == RemovalDiff(objects, groups)
    IN  /\ groups' = groups \ diff
        /\ gpose' = [n \in GroupNames |-> IF n \in diff THEN 0 ELSE gpose[n]]
        /\ calls' = RemoveCalls(NamesInOrder(diff))
        /\ last' = [op |-> "removing_of_objects",
                    result |-> IF RemovingRaises(objects) THEN "NameError"
                                                          ELSE "returned"]
        /\ pre' = Snapshot
        /\ prevSyncOk' = FALSE
        /\ UNCHANGED <<objects, pose, partial>>
        /\ UNCHANGED procVars
        /\ UNCHANGED demoVars

\* removing_of_objects called between sync_worlds calls, in a changing world
NextRemove ==
    \/ RemovingOfObjects
    \/ SyncWorlds
    \/ AddBody
    \/ RemoveBody
    \/ MoveBody

SpecRemove == InitSync /\ [][NextRemove]_vars

\* ============================================== hsrb_process_modules.py
Capabilities ==
    {"navigate", "pick_up", "place", "looking", "detecting", "move_tcp",
     "move_arm_joints", "world_state_detecting", "move_joints", "move_gripper",
     "open", "close"}

\* ProcessModuleManager.execution_type: "unset" is any value that is neither
\* "simulated" nor "real"
Modes == {"simulated", "real", "unset"}

\* ObjectType of the objects, and the types a detection designator asks for
\* ("MILK": a type no object has and that is neither cup nor bowl)
TypeOf(o) ==
    CASE o = RobotObj -> "ROBOT"
      [] o = CupObj   -> "JEROEN_CUP"
      [] o = BowlObj  -> "BOWL"
      [] OTHER        -> "ENVIRONMENT"
QueryTypes == {"JEROEN_CUP", "BOWL", "MILK"}

\* HSRBManager.__init__: one Lock() per field
LockFields ==
    {"_navigate_lock", "_pick_up_lock", "_place_lock", "_looking_lock",
     "_detecting_lock", "_move_tcp_lock", "_move_arm_joints_lock",
     "_world_state_detecting_lock", "_move_joints_lock", "_move_gripper_lock",
     "_open_lock", "_close_lock"}

\* MethodLock with close() handing out the lock of open()
MethodLock_CloseUsesOpen(c) ==
    CASE c = "navigate"              -> "_navigate_lock"
      [] c = "pick_up"               -> "_pick_up_lock"
      [] c = "place"                 -> "_place_lock"
      [] c = "looking"               -> "_looking_lock"
      [] c = "detecting"             -> "_detecting_lock"
      [] c = "move_tcp"              -> "_move_tcp_lock"
      [] c = "move_arm_joints"       -> "_move_arm_joints_lock"
      [] c = "world_state_detecting" -> "_world_state_detecting_lock"
      [] c = "move_joints"           -> "_move_joints_lock"
      [] c = "move_gripper"          -> "_move_gripper_lock"
      [] c = "open"                  -> "_open_lock"
      [] c = "close"                 -> "_open_lock"

\* the methods of HSRBManager: the field each passes to the process module it
\* builds, in both branches
MethodLock(c) ==
    CASE c = "navigate"              -> "_navigate_lock"
      [] c = "pick_up"               -> "_pick_up_lock"
      [] c = "place"                 -> "_place_lock"
      [] c = "looking"               -> "_looking_lock"
      [] c = "detecting"             -> "_detecting_lock"
      [] c = "move_tcp"              -> "_move_tcp_lock"
      [] c = "move_arm_joints"       -> "_move_arm_joints_lock"
      [] c = "world_state_detecting" -> "_world_state_detecting_lock"
      [] c = "move_joints"           -> "_move_joints_lock"
      [] c = "move_gripper"          -> "_move_gripper_lock"
      [] c = "open"                  -> "_open_lock"
      [] c = "close"                 -> "_close_lock"

\* LockGiven with a Lock() built by the method at every call
LockGiven_Fresh(c, t) == <<MethodLock(c), t>>

\* the lock carried by the process module that caller t gets for capability
\* c: the one Lock() that __init__ stored in the field, whoever calls
LockGiven(c, t) == <<MethodLock(c)>>

\* the branch of the manager methods taken under "simulated"
SimClass(c) ==
    CASE c = "navigate"              -> "HSRBNavigation"
      [] c = "pick_up"               -> "HSRBPickUp"
      [] c = "place"                 -> "HSRBPlace"
      [] c = "looking"               -> "HSRBMoveHead"
      [] c = "detecting"             -> "HSRBDetecting"
      [] c = "move_tcp"              -> "HSRBMoveTCP"
      [] c = "move_arm_joints"       -> "HSRBMoveArmJoints"
      [] c = "world_state_detecting" -> "HSRBWorldStateDetecting"
      [] c = "move_joints"           -> "HSRBMoveJoints"
      [] c = "move_gripper"          -> "HSRBMoveGripper"
      [] c = "open"                  -> "HSRBOpen"
      [] c = "close"                 -> "HSRBClose"

\* the branch of the manager methods taken under "real"
RealClass(c) ==
    CASE c = "navigate"              -> "HSRBNavigationReal"
      [] c = "pick_up"               -> "HSRBPickUpReal"
      [] c = "place"                 -> "HSRBPlaceReal"
      [] c = "looking"               -> "HSRBMoveHeadReal"
      [] c = "detecting"             -> "HSRBDetectingReal"
      [] c = "move_tcp"              -> "HSRBMoveTCPReal"
      [] c = "move_arm_joints"       -> "HSRBMoveArmJointsReal"
      [] c = "world_state_detecting" -> "HSRBWorldStateDetecting"
      [] c = "move_joints"           -> "HSRBMoveJointsReal"
      [] c = "move_gripper"          -> "HSRBMoveGripperReal"
      [] c = "open"                  -> "HSRBOpenReal"
      [] c = "close"                 -> "HSRBCloseReal"

\* Impl with the two branches of the manager methods swapped
Impl_Swapped(c, m) ==
    IF m = "simulated" THEN RealClass(c)
    ELSE IF m = "real" THEN SimClass(c)
    ELSE "None"

\* what manager method c returns under mode m; "None": the method falls off
\* its end
Impl(c, m) ==
    IF m = "simulated" THEN SimClass(c)
    ELSE IF m = "real" THEN RealClass(c)
    ELSE "None"

Step(k, n) == [kind |-> k, name |-> n]

\* giskard.avoid_all_collisions()
avoid_all_collisions == <<Step("policy", "avoid_all_collisions")>>

\* achieve_joint_goal with the goal set before the worlds are synchronised
achieve_joint_goal_GoalFirst ==
    <<Step("goal", "set_joint_goal"), Step("sync", "sync_worlds"),
      Step("execute", "plan_and_execute")>>

\* giskard.achieve_joint_goal(goal_poses)
achieve_joint_goal ==
    <<Step("sync", "sync_worlds"), Step("goal", "set_joint_goal"),
      Step("execute", "plan_and_execute")>>

\* achieve_cartesian_goal that sets and sends the goal a second time
achieve_cartesian_goal_Retry ==
    <<Step("sync", "sync_worlds"), Step("goal", "set_cart_goal"),
      Step("execute", "plan_and_execute"), Step("goal", "set_cart_goal"),
      Step("execute", "plan_and_execute")>>

\* giskard.achieve_cartesian_goal(goal_pose, tip_link, root_link)
achieve_cartesian_goal ==
    <<Step("sync", "sync_worlds"), Step("goal", "set_cart_goal"),
      Step("execute", "plan_and_execute")>>

\* achieve_open_container_goal without the sync_worlds() at its start
achieve_open_container_goal_NoSync ==
    <<Step("goal", "set_open_container_goal"), Step("execute", "plan_and_execute")>>

\* giskard.achieve_open_container_goal(tip_link, environment_link)
achieve_open_container_goal ==
    <<Step("sync", "sync_worlds"), Step("goal", "set_open_container_goal"),
      Step("execute", "plan_and_execute")>>

\* giskard.achieve_close_container_goal(tip_link, environment_link)
achieve_close_container_goal ==
    <<Step("sync", "sync_worlds"), Step("goal", "set_close_container_goal"),
      Step("execute", "plan_and_execute")>>

\* giskard.achieve_straight_cartesian_goal(goal_pose, tip_link, root_link)
achieve_straight_cartesian_goal ==
    <<Step("sync", "sync_worlds"), Step("goal", "set_straight_cart_goal"),
      Step("execute", "plan_and_execute")>>

\* giskard.achieve_translation_goal(goal_point, tip_link, root_link)
achieve_translation_goal ==
    <<Step("sync", "sync_worlds"), Step("goal", "set_translation_goal"),
      Step("execute", "plan_and_execute")>>

\* giskard.achieve_straight_translation_goal(goal_point, tip_link, root_link)
achieve_straight_translation_goal ==
    <<Step("sync", "sync_worlds"), Step("goal", "set_straight_translation_goal"),
      Step("execute", "plan_and_execute")>>

\* giskard.achieve_rotation_goal(quat, tip_link, root_link)
achieve_rotation_goal ==
    <<Step("sync", "sync_worlds"), Step("goal", "set_rotation_goal"),
      Step("execute", "plan_and_execute")>>

\* giskard.achieve_align_planes_goal(goal_normal, tip_link, tip_normal, root_link)
achieve_align_planes_goal ==
    <<Step("sync", "sync_worlds"), Step("goal", "set_align_planes_goal"),
      Step("execute", "plan_and_execute")>>

\* the nine goal functions of giskard.py
GoalFunctions ==
    {achieve_joint_goal, achieve_cartesian_goal, achieve_straight_cartesian_goal,
     achieve_translation_goal, achieve_straight_translation_goal,
     achieve_rotation_goal, achieve_align_planes_goal,
     achieve_open_container_goal, achieve_close_container_goal}

\* the simulated _execute methods whose arm motion (_move_arm_tcp, request_ik)
\* can raise IKError
ArmMotionImpls == {"HSRBPickUp", "HSRBPlace", "HSRBMoveTCP", "HSRBOpen", "HSRBClose"}

\* HSRBPickUp._execute with the object attached before the arm is moved
HSRBPickUp_AttachFirst == <<Step("attach", "attach"), Step("arm", "HSRBPickUp")>>

\* HSRBPickUp._execute: _move_arm_tcp, then robot.attach(object, tool_frame)
HSRBPickUp == <<Step("arm", "HSRBPickUp"), Step("attach", "attach")>>

\* HSRBPlace._execute: _move_arm_tcp, then robot.detach(object)
HSRBPlace == <<Step("arm", "HSRBPlace"), Step("detach", "detach")>>

\* the calls of the _execute of class impl, in order; allow is the
\* allow_gripper_collision flag of a MoveTCPMotion designator. A "missing"
\* step is the use of an attribute the module giskard does not define.
Execute(impl, allow) ==
    CASE impl = "HSRBNavigationReal" -> achieve_cartesian_goal
      [] impl \in {"HSRBPickUpReal", "HSRBPlaceReal"} -> <<>>
      [] impl = "HSRBMoveHeadReal" -> avoid_all_collisions \o achieve_joint_goal
      [] impl = "HSRBDetectingReal" -> <<Step("detect_real", "query")>>
      [] impl = "HSRBMoveTCPReal" ->
            (IF allow THEN <<Step("missing", "allow_gripper_collision")>> ELSE <<>>)
            \o achieve_cartesian_goal
      [] impl \in {"HSRBMoveArmJointsReal", "HSRBMoveJointsReal"} ->
            avoid_all_collisions \o achieve_joint_goal
      [] impl = "HSRBMoveGripperReal" ->
            <<Step("missing", "achieve_gripper_motion_goal")>>
      [] impl = "HSRBOpenReal" -> achieve_open_container_goal
      [] impl = "HSRBCloseReal" -> achieve_close_container_goal
      [] impl = "HSRBWorldStateDetecting" -> <<Step("filter", impl)>>
      [] impl = "HSRBDetecting" -> <<Step("detect_sim", impl)>>
      [] impl = "HSRBNavigation" -> <<Step("set_pose", impl)>>
      [] impl = "HSRBPickUp" -> HSRBPickUp
      [] impl = "HSRBPlace" -> HSRBPlace
      [] impl \in ArmMotionImpls -> <<Step("arm", impl)>>
      [] OTHER -> <<Step("local", impl)>>

\* HSRBMoveArmJointsReal._execute, lines 359-362: the joint_goals handed to
\* achieve_joint_goal, from the left_arm_poses l and the right_arm_poses r of
\* the designator
JointGoals(l, r) == l

\* HSRBMoveArmJoints._execute, lines 178-182: the joints set_joint_states is
\* called with
SetJointStates(l, r) == r \cup l

\* ------------------------------------------------ the callers (threads)
Holds(t) == \E h \in held : h[2] = t
\* LockFree of a lock that never blocks
LockFree_Always(l) == TRUE

\* the lock l is held by nobody
LockFree(l) == \A h \in held : h[1] # l

\* manager.<c>() returned a process module and the caller calls execute on it
\* with a designator (i: well-formed or not; no manager method and no
\* _execute looks at that): "with self._lock:" is entered at once when the
\* lock is free, the caller blocks otherwise. allow is the
\* allow_gripper_collision flag of a MoveTCPMotion designator, l and r are the
\* left_arm_poses and right_arm_poses of a MoveArmJointsMotion designator.
RequestDesig(t, i, l, r) ==
    /\ pc[t] \in {"idle", "done"}
    /\ \E c \in Capabilities, allow \in BOOLEAN :
        /\ Impl(c, mode) # "None"
        /\ allow => Impl(c, mode) = "HSRBMoveTCPReal"
        /\ l \cup r # {} => c = "move_arm_joints"
        /\ cap' = [cap EXCEPT ![t] = c]
        /\ todo' = [todo EXCEPT ![t] = Execute(Impl(c, mode), allow)]
        /\ IF LockFree(LockGiven(c, t))
           THEN /\ held' = held \cup {<<LockGiven(c, t), t>>}
                /\ pc' = [pc EXCEPT ![t] = "run"]
           ELSE /\ held' = held
                /\ pc' = [pc EXCEPT ![t] = "acquire"]
    /\ trace' = [trace EXCEPT ![t] = <<>>]
    /\ outcome' = [outcome EXCEPT ![t] = "none"]
    /\ nrel' = [nrel EXCEPT ![t] = 0]
    /\ intent' = [intent EXCEPT ![t] = i]
    /\ answer' = [answer EXCEPT ![t] = "none"]
    /\ ret' = [ret EXCEPT ![t] = "none"]
    /\ joints' = [joints EXCEPT ![t] = [NoJoints EXCEPT !.left = l, !.right = r]]
    /\ UNCHANGED <<cmd_seq, attached>>
    /\ UNCHANGED mode
    /\ UNCHANGED syncVars
    /\ UNCHANGED demoVars

\* a request whose designator has no arm poses
RequestWith(t, i) == RequestDesig(t, i, {}, {})

\* a request with a well-formed designator
Request(t) == RequestWith(t, "ok")

\* move_arm_joints requested with a MoveArmJointsMotion that has arm poses
RequestArmJoints(t) ==
    \E l, r \in SUBSET ArmJoints :
        /\ l \cup r # {}
        /\ RequestDesig(t, "ok", l, r)

\* a request with a designator that lacks its reference frame, has an
\* orientation that is not normalised, or names no joint
RequestMalformed(t) == RequestWith(t, "malformed")

\* manager.<c>() returned None: calling execute on it raises AttributeError
RequestNone(t) ==
    /\ pc[t] \in {"idle", "done"}
    /\ \E c \in Capabilities : Impl(c, mode) = "None"
    /\ pc' = [pc EXCEPT ![t] = "done"]
    /\ cap' = [cap EXCEPT ![t] = "none"]
    /\ todo' = [todo EXCEPT ![t] = <<>>]
    /\ trace' = [trace EXCEPT ![t] = <<>>]
    /\ outcome' = [outcome EXCEPT ![t] = "NoneType"]
    /\ nrel' = [nrel EXCEPT ![t] = 0]
    /\ intent' = [intent EXCEPT ![t] = "ok"]
    /\ answer' = [answer EXCEPT ![t] = "none"]
    /\ ret' = [ret EXCEPT ![t] = "none"]
    /\ joints' = [joints EXCEPT ![t] = NoJoints]
    /\ UNCHANGED <<cmd_seq, attached>>
    /\ UNCHANGED <<mode, held>>
    /\ UNCHANGED syncVars
    /\ UNCHANGED demoVars

\* Acquire that does not wait for the lock to be free
Acquire_Unchecked(t) ==
    /\ pc[t] = "acquire"
    /\ held' = held \cup {<<LockGiven(cap[t], t), t>>}
    /\ pc' = [pc EXCEPT ![t] = "run"]
    /\ UNCHANGED <<mode, cap, todo, trace, outcome, nrel>>
    /\ UNCHANGED obsVars
    /\ UNCHANGED syncVars
    /\ UNCHANGED demoVars

\* ProcessModule.execute: "with self._lock:" entered by a caller that blocked
Acquire(t) ==
    /\ pc[t] = "acquire"
    /\ LockFree(LockGiven(cap[t], t))
    /\ held' = held \cup {<<LockGiven(cap[t], t), t>>}
    /\ pc' = [pc EXCEPT ![t] = "run"]
    /\ UNCHANGED <<mode, cap, todo, trace, outcome, nrel>>
    /\ UNCHANGED obsVars
    /\ UNCHANGED syncVars
    /\ UNCHANGED demoVars

\* ReleaseLock that leaves the lock held when _execute raised
ReleaseLock_OnReturnOnly(t, o) ==
    IF o = "returned" THEN held \ {<<LockGiven(cap[t], t), t>>} ELSE held

\* ProcessModule.execute: "with self._lock:" is left, when _execute returned
\* and when it raised (o is how it ended)
ReleaseLock(t, o) == held \ {<<LockGiven(cap[t], t), t>>}

\* ---------------------------------------- the effects of the calls of _execute
\* sync_worlds() at the start of an achieve_*_goal function; r: how it ends
SyncEffect(r) ==
    /\ \E done \in SUBSET Spawnable : \E rej \in SUBSET (Spawnable \ done) :
        /\ SyncWorldsEffect(done, rej)
        /\ calls' = SyncWorldsCalls(done, rej)
        /\ r = IF SyncWorldsResult(done, rej) = "raised" THEN "SyncFailed" ELSE "returned"
    /\ UNCHANGED <<objects, pose, last, pre, prevSyncOk, partial>>

\* HSRBNavigation._execute: robot.set_pose(desig.target)
SetPoseEffect ==
    /\ \E p \in Poses : pose' = [pose EXCEPT ![RobotObj] = p]
    /\ UNCHANGED <<objects, groups, gpose, last, pre, calls, prevSyncOk, partial>>

\* HSRBDetectingReal._execute: the perception query (found = FALSE: it raised),
\* then the object of the type gets the perceived pose, or a cup / bowl is
\* created with it, or bullet_obj[0] raises IndexError on the empty list
DetectRealEffect(r) ==
    /\ \E ty \in QueryTypes, found \in BOOLEAN, p \in Poses :
        LET have == {o \in objects : TypeOf(o) = ty}
            made == IF ty = "JEROEN_CUP" THEN {CupObj}
                    ELSE IF ty = "BOWL" THEN {BowlObj} ELSE {}
        IN  IF ~found
            THEN r = "PerceptionObjectNotFound" /\ UNCHANGED <<objects, pose>>
            ELSE IF have # {}
            THEN /\ pose' = [o \in Objects |-> IF o \in have THEN p ELSE pose[o]]
                 /\ UNCHANGED objects
                 /\ r = "returned"
            ELSE IF made # {}
            THEN /\ objects' = objects \cup made
                 /\ pose' = [o \in Objects |-> IF o \in made THEN p ELSE pose[o]]
                 /\ r = "returned"
            ELSE r = "IndexError" /\ UNCHANGED <<objects, pose>>
    /\ UNCHANGED <<groups, gpose, last, pre, calls, prevSyncOk, partial>>

\* HSRBWorldStateDetecting._execute: list(filter(...))[0] raises IndexError
\* when no object has the type
FilterEffect(r) ==
    /\ \E ty \in QueryTypes :
        r = IF \E o \in objects : TypeOf(o) = ty THEN "returned" ELSE "IndexError"
    /\ UNCHANGED syncVars
    /\ UNCHANGED demoVars

\* HSRBPickUp, HSRBPlace, HSRBMoveTCP, HSRBOpen, HSRBClose: _move_arm_tcp,
\* whose request_ik raises IKError when the target is not reachable
ArmEffect(r) ==
    /\ r \in {"returned", "IKError"}
    /\ UNCHANGED syncVars
    /\ UNCHANGED demoVars

Results ==
    {"returned", "SyncFailed", "PerceptionObjectNotFound", "IndexError", "IKError",
     "AttributeError"}

\* ------------------------------- SpecProc: every _execute is one step
\* _execute ended as o and "with self._lock:" is left; the process module is
\* dropped
Finish(t, o) ==
    /\ pc[t] = "run"
    /\ held' = ReleaseLock(t, o)
    /\ nrel' = [nrel EXCEPT ![t] = IF held' # held THEN @ + 1 ELSE @]
    /\ outcome' = [outcome EXCEPT ![t] = o]
    /\ pc' = [pc EXCEPT ![t] = "done"]
    /\ todo' = [todo EXCEPT ![t] = <<>>]
    /\ cap' = [cap EXCEPT ![t] = "none"]
    /\ UNCHANGED <<mode, trace>>
    /\ UNCHANGED obsVars
    /\ UNCHANGED demoVars

Begins(t, kinds) == pc[t] = "run" /\ todo[t] # <<>> /\ Head(todo[t]).kind \in kinds

\* HSRBPickUpReal, HSRBPlaceReal: pass
RunPass(t) ==
    /\ pc[t] = "run" /\ todo[t] = <<>>
    /\ Finish(t, "returned")
    /\ UNCHANGED syncVars
    /\ UNCHANGED demoVars

\* the real capabilities that send a goal: [policy,] sync_worlds, set goal,
\* plan_and_execute; what giskard_wrapper holds between these calls is not
\* kept in this specification
RunGoal(t) ==
    /\ Begins(t, {"policy", "sync"})
    /\ \E r \in Results : SyncEffect(r) /\ Finish(t, r)

\* HSRBMoveGripperReal, and HSRBMoveTCPReal with allow_gripper_collision
RunMissing(t) ==
    /\ Begins(t, {"missing"})
    /\ Finish(t, "AttributeError")
    /\ UNCHANGED syncVars
    /\ UNCHANGED demoVars

RunDetectReal(t) ==
    /\ Begins(t, {"detect_real"})
    /\ \E r \in Results : DetectRealEffect(r) /\ Finish(t, r)

RunFilter(t) ==
    /\ Begins(t, {"filter"})
    /\ \E r \in Results : FilterEffect(r) /\ Finish(t, r)

RunSetPose(t) ==
    /\ Begins(t, {"set_pose"})
    /\ SetPoseEffect
    /\ Finish(t, "returned")

\* HSRBPickUp, HSRBPlace, HSRBMoveTCP, HSRBOpen, HSRBClose; what is attached
\* to the robot is not kept in this specification
RunArm(t) ==
    /\ Begins(t, {"arm"})
    /\ \E r \in Results : ArmEffect(r) /\ Finish(t, r)

\* HSRBMoveHead, HSRBMoveGripper, HSRBDetecting, HSRBMoveArmJoints,
\* HSRBMoveJoints: joint states of the robot, a visibility test
RunLocal(t) ==
    /\ Begins(t, {"local", "detect_sim"})
    /\ Finish(t, "returned")
    /\ UNCHANGED syncVars
    /\ UNCHANGED demoVars

InitWorld(objs, g) ==
    /\ objects = objs
    /\ pose = [o \in Objects |-> 0]
    /\ groups = g
    /\ gpose = [n \in GroupNames |-> 0]
    /\ last = [op |-> "init", result |-> "returned"]
    /\ pre = NoPre
    /\ calls = <<>>
    /\ prevSyncOk = FALSE
    /\ partial = FALSE

\* a World Model with the robot, a cup and a bowl, and Giskard in step with it
InitProc ==
    /\ mode \in Modes
    /\ InitProcIdle
    /\ InitDemoIdle
    /\ InitWorld({RobotObj, CupObj, BowlObj},
                 {RobotName, ObjName(CupObj), ObjName(BowlObj)})

NextProc ==
    \E t \in Callers :
        \/ Request(t)
        \/ RequestNone(t)
        \/ Acquire(t)
        \/ RunPass(t)
        \/ RunGoal(t)
        \/ RunMissing(t)
        \/ RunDetectReal(t)
        \/ RunFilter(t)
        \/ RunSetPose(t)
        \/ RunArm(t)
        \/ RunLocal(t)

SpecProc == InitProc /\ [][NextProc]_vars

\* ------------------- SpecGoal: one caller, every call of _execute is a step
\* pc "run" with a call of kind k next
At(t, k) == pc[t] = "run" /\ outcome[t] = "none" /\ todo[t] # <<>> /\ Head(todo[t]).kind = k

\* the next call was made and ended as r
Called(t, r) ==
    /\ trace' = [trace EXCEPT ![t] = Append(@, Head(todo[t]).name)]
    /\ todo' = [todo EXCEPT ![t] = IF r = "returned" THEN Tail(@) ELSE <<>>]
    /\ outcome' = [outcome EXCEPT ![t] = IF r = "returned" THEN @ ELSE r]
    /\ UNCHANGED <<mode, pc, cap, held, nrel, intent>>
    /\ UNCHANGED demoVars

\* giskard.avoid_all_collisions()
CallPolicy(t) ==
    /\ At(t, "policy")
    /\ Called(t, "returned")
    /\ cmd_seq' = add_policy(cmd_seq, t)
    /\ UNCHANGED attached
    /\ UNCHANGED <<answer, ret, joints>>
    /\ UNCHANGED syncVars
    /\ UNCHANGED demoVars

\* sync_worlds() at the start of an achieve_*_goal function
CallSyncWorlds(t) ==
    /\ At(t, "sync")
    /\ \E r \in Results : SyncEffect(r) /\ Called(t, r)
    /\ UNCHANGED <<answer, ret, joints, cmd_seq, attached>>

\* giskard_wrapper.set_*_goal(...)
CallSetGoal(t) ==
    /\ At(t, "goal")
    /\ Called(t, "returned")
    /\ joints' = [joints EXCEPT ![t] =
                    IF cap[t] = "move_arm_joints"
                    THEN [@ EXCEPT !.goal = JointGoals(joints[t].left, joints[t].right),
                                   !.sent = TRUE]
                    ELSE @]
    /\ cmd_seq' = add_goal(cmd_seq, t)
    /\ UNCHANGED attached
    /\ UNCHANGED <<answer, ret>>
    /\ UNCHANGED syncVars
    /\ UNCHANGED demoVars

\* giskard_wrapper.plan_and_execute(): the goal is sent and the caller waits
\* for the MoveResult, without a timeout
CallPlanAndExecute(t) ==
    /\ At(t, "execute")
    /\ answer[t] = "none"
    /\ trace' = [trace EXCEPT ![t] = Append(@, Head(todo[t]).name)]
    /\ answer' = [answer EXCEPT ![t] = "pending"]
    /\ cmd_seq' = clear_cmds(cmd_seq)
    /\ UNCHANGED attached
    /\ UNCHANGED <<mode, pc, cap, held, nrel, intent, todo, outcome, ret, joints>>
    /\ UNCHANGED syncVars
    /\ UNCHANGED demoVars

\* the terminal results of Giskard: the goal was reached, could not be
\* planned or executed, or was not accepted
MoveResults == {"SUCCESS", "FAILED", "REJECTED"}

\* Giskard answers: plan_and_execute returns the MoveResult, the
\* achieve_*_goal function returns it and the _execute that called the
\* function goes on without looking at it
PlannerAnswers(t) ==
    /\ At(t, "execute")
    /\ answer[t] = "pending"
    /\ \E a \in MoveResults : answer' = [answer EXCEPT ![t] = a]
    /\ todo' = [todo EXCEPT ![t] = Tail(@)]
    /\ UNCHANGED <<mode, pc, cap, held, nrel, intent, trace, outcome, ret, joints, cmd_seq, attached>>
    /\ UNCHANGED syncVars
    /\ UNCHANGED demoVars

\* giskard.allow_gripper_collision / giskard.achieve_gripper_motion_goal:
\* giskard.py defines neither, the attribute lookup raises AttributeError and
\* no call is made
CallMissing(t) ==
    /\ At(t, "missing")
    /\ todo' = [todo EXCEPT ![t] = <<>>]
    /\ outcome' = [outcome EXCEPT ![t] = "AttributeError"]
    /\ UNCHANGED <<mode, pc, cap, held, nrel, trace>>
    /\ UNCHANGED obsVars
    /\ UNCHANGED syncVars
    /\ UNCHANGED demoVars

\* HSRBDetectingReal._execute returns the object it moved or created
CallDetectReal(t) ==
    /\ At(t, "detect_real")
    /\ \E r \in Results :
        /\ DetectRealEffect(r)
        /\ Called(t, r)
        /\ ret' = [ret EXCEPT ![t] = IF r = "returned" THEN "Object" ELSE @]
    /\ UNCHANGED <<answer, joints, cmd_seq, attached>>

\* HSRBWorldStateDetecting._execute returns the first object of the type
CallFilter(t) ==
    /\ At(t, "filter")
    /\ \E r \in Results :
        /\ FilterEffect(r)
        /\ Called(t, r)
        /\ ret' = [ret EXCEPT ![t] = IF r = "returned" THEN "Object" ELSE @]
    /\ UNCHANGED <<answer, joints, cmd_seq, attached>>

\* HSRBDetecting._execute: returns the first object of the type that
\* btr.visible finds visible; without one the loop ends and the method
\* returns None
CallDetectSim(t) ==
    /\ At(t, "detect_sim")
    /\ \E ty \in QueryTypes, visible \in BOOLEAN :
        ret' = [ret EXCEPT ![t] =
                   IF visible /\ \E o \in objects : TypeOf(o) = ty
                   THEN "Object" ELSE "None"]
    /\ Called(t, "returned")
    /\ UNCHANGED <<answer, joints, cmd_seq, attached>>
    /\ UNCHANGED syncVars
    /\ UNCHANGED demoVars

CallSetPose(t) ==
    /\ At(t, "set_pose")
    /\ SetPoseEffect
    /\ Called(t, "returned")
    /\ UNCHANGED <<answer, ret, joints, cmd_seq, attached>>

CallArm(t) ==
    /\ At(t, "arm")
    /\ \E r \in Results : ArmEffect(r) /\ Called(t, r)
    /\ UNCHANGED <<answer, ret, joints, cmd_seq, attached>>

\* the objects a PickUpMotion or PlaceMotion designator can name
Graspable == objects \ {RobotObj}

\* HSRBPickUp._execute: robot.attach(object, tool_frame)
CallAttach(t) ==
    /\ At(t, "attach")
    /\ \E o \in Graspable : attached' = attached \cup {o}
    /\ Called(t, "returned")
    /\ UNCHANGED <<answer, ret, joints, cmd_seq>>
    /\ UNCHANGED syncVars
    /\ UNCHANGED demoVars

\* HSRBPlace._execute: robot.detach(object)
CallDetach(t) ==
    /\ At(t, "detach")
    /\ \E o \in Graspable : attached' = attached \ {o}
    /\ Called(t, "returned")
    /\ UNCHANGED <<answer, ret, joints, cmd_seq>>
    /\ UNCHANGED syncVars
    /\ UNCHANGED demoVars

CallLocal(t) ==
    /\ At(t, "local")
    /\ Called(t, "returned")
    /\ joints' = [joints EXCEPT ![t] =
                    IF Head(todo[t]).name = "HSRBMoveArmJoints"
                    THEN [@ EXCEPT !.goal = SetJointStates(joints[t].left, joints[t].right),
                                   !.sent = TRUE]
                    ELSE @]
    /\ UNCHANGED <<answer, ret, cmd_seq, attached>>
    /\ UNCHANGED syncVars
    /\ UNCHANGED demoVars

\* what execute hands back when _execute is over: the value _execute
\* returned (None when it ended without a return statement), nothing when it
\* raised
Returned(t) ==
    IF outcome[t] # "none" THEN ret[t]
    ELSE IF ret[t] = "none" THEN "None" ELSE ret[t]

\* ProcessModule.execute: _execute is over, "with self._lock:" is left
Release(t) ==
    /\ pc[t] = "run"
    /\ cap[t] \in Capabilities
    /\ todo[t] = <<>>
    /\ held' = ReleaseLock(t, IF outcome[t] = "none" THEN "returned" ELSE outcome[t])
    /\ nrel' = [nrel EXCEPT ![t] = IF held' # held THEN @ + 1 ELSE @]
    /\ outcome' = [outcome EXCEPT ![t] = IF @ = "none" THEN "returned" ELSE @]
    /\ ret' = [ret EXCEPT ![t] = Returned(t)]
    /\ pc' = [pc EXCEPT ![t] = "done"]
    /\ UNCHANGED <<mode, cap, todo, trace, intent, answer, joints, cmd_seq, attached>>
    /\ UNCHANGED syncVars
    /\ UNCHANGED demoVars

\* ------------------------------- giskard.py called without a process module
\* a caller calls one of the goal functions of giskard.py itself
DirectGoal(t) ==
    /\ pc[t] \in {"idle", "done"}
    /\ \E f \in GoalFunctions : todo' = [todo EXCEPT ![t] = f]
    /\ pc' = [pc EXCEPT ![t] = "run"]
    /\ cap' = [cap EXCEPT ![t] = "none"]
    /\ trace' = [trace EXCEPT ![t] = <<>>]
    /\ outcome' = [outcome EXCEPT ![t] = "none"]
    /\ nrel' = [nrel EXCEPT ![t] = 0]
    /\ intent' = [intent EXCEPT ![t] = "ok"]
    /\ answer' = [answer EXCEPT ![t] = "none"]
    /\ ret' = [ret EXCEPT ![t] = "none"]
    /\ joints' = [joints EXCEPT ![t] = NoJoints]
    /\ UNCHANGED <<cmd_seq, attached>>
    /\ UNCHANGED <<mode, held>>
    /\ UNCHANGED syncVars
    /\ UNCHANGED demoVars

\* the goal function returns the MoveResult of plan_and_execute, or is left
\* by the exception of sync_worlds
DirectReturn(t) ==
    /\ pc[t] = "run"
    /\ cap[t] = "none"
    /\ todo[t] = <<>>
    /\ outcome' = [outcome EXCEPT ![t] = IF @ = "none" THEN "returned" ELSE @]
    /\ ret' = [ret EXCEPT ![t] = IF outcome[t] = "none" THEN "MoveResult" ELSE @]
    /\ pc' = [pc EXCEPT ![t] = "done"]
    /\ UNCHANGED <<mode, cap, held, nrel, todo, trace, intent, answer, joints, cmd_seq, attached>>
    /\ UNCHANGED syncVars
    /\ UNCHANGED demoVars

\* ------------------------------------------------------------ DonbotManager
DonbotLooking == "DonbotManager.looking"
DonbotLock == <<"DonbotManager._looking_lock">>

\* DonbotImpl with a process module for the real robot
DonbotImpl_RealToo(c, m) ==
    IF c = "looking" /\ m \in {"simulated", "real"} THEN "DonbotMoveHead" ELSE "None"

\* what DonbotManager.looking returns under mode m; "None": the method falls
\* off its end
DonbotImpl(c, m) ==
    IF c = "looking" /\ m = "simulated" THEN "DonbotMoveHead" ELSE "None"

\* DonbotManager.looking() and execute on what it returned: DonbotMoveHead
\* sets joint positions of the robot in the world; execute on None raises
\* AttributeError
RequestDonbot(t) ==
    /\ pc[t] \in {"idle", "done"}
    /\ IF DonbotImpl("looking", mode) # "None"
       THEN /\ cap' = [cap EXCEPT ![t] = DonbotLooking]
            /\ todo' = [todo EXCEPT ![t] = <<Step("local", DonbotImpl("looking", mode))>>]
            /\ held' = held \cup {<<DonbotLock, t>>}
            /\ pc' = [pc EXCEPT ![t] = "run"]
            /\ outcome' = [outcome EXCEPT ![t] = "none"]
       ELSE /\ cap' = [cap EXCEPT ![t] = "none"]
            /\ todo' = [todo EXCEPT ![t] = <<>>]
            /\ held' = held
            /\ pc' = [pc EXCEPT ![t] = "done"]
            /\ outcome' = [outcome EXCEPT ![t] = "NoneType"]
    /\ trace' = [trace EXCEPT ![t] = <<>>]
    /\ nrel' = [nrel EXCEPT ![t] = 0]
    /\ intent' = [intent EXCEPT ![t] = "ok"]
    /\ answer' = [answer EXCEPT ![t] = "none"]
    /\ ret' = [ret EXCEPT ![t] = "none"]
    /\ joints' = [joints EXCEPT ![t] = NoJoints]
    /\ UNCHANGED <<cmd_seq, attached>>
    /\ UNCHANGED mode
    /\ UNCHANGED syncVars
    /\ UNCHANGED demoVars

\* ProcessModule.execute of DonbotMoveHead: "with self._lock:" is left
ReleaseDonbot(t) ==
    /\ pc[t] = "run"
    /\ cap[t] = DonbotLooking
    /\ todo[t] = <<>>
    /\ held' = held \ {<<DonbotLock, t>>}
    /\ nrel' = [nrel EXCEPT ![t] = IF held' # held THEN @ + 1 ELSE @]
    /\ outcome' = [outcome EXCEPT ![t] = IF @ = "none" THEN "returned" ELSE @]
    /\ ret' = [ret EXCEPT ![t] = Returned(t)]
    /\ pc' = [pc EXCEPT ![t] = "done"]
    /\ UNCHANGED <<mode, cap, todo, trace, intent, answer, joints, cmd_seq, attached>>
    /\ UNCHANGED syncVars
    /\ UNCHANGED demoVars

\* a World Model with the robot and a cup; Giskard holds a stale table
InitGoal ==
    /\ mode \in Modes
    /\ InitProcIdle
    /\ InitDemoIdle
    /\ InitWorld({RobotObj, CupObj}, {RobotName, ObjName(TableObj)})

\* the caller of SpecGoal
GoalCaller == CHOOSE t \in Callers : \A u \in Callers : t <= u

\* the steps of the caller and of the code it calls
ProgramStep(t) ==
    \/ Request(t)
    \/ RequestMalformed(t)
    \/ RequestArmJoints(t)
    \/ RequestNone(t)
    \/ RequestDonbot(t)
    \/ DirectGoal(t)
    \/ Release(t)
    \/ ReleaseDonbot(t)
    \/ DirectReturn(t)
    \/ CallPolicy(t)
    \/ CallSyncWorlds(t)
    \/ CallSetGoal(t)
    \/ CallPlanAndExecute(t)
    \/ CallMissing(t)
    \/ CallDetectReal(t)
    \/ CallDetectSim(t)
    \/ CallFilter(t)
    \/ CallSetPose(t)
    \/ CallArm(t)
    \/ CallAttach(t)
    \/ CallDetach(t)
    \/ CallLocal(t)

NextGoal ==
    \E t \in {GoalCaller} :
        \/ ProgramStep(t)
        \/ PlannerAnswers(t)

SpecGoal == InitGoal /\ [][NextGoal]_vars

\* SpecGoal with a caller that takes every step it can take; nothing makes
\* Giskard answer
SpecGoalFair == SpecGoal /\ WF_vars(ProgramStep(GoalCaller))

\* ------------------- SpecOnce: every caller asks for one capability, once
\* the first and only request of a caller
RequestOnce(t) == pc[t] = "idle" /\ Request(t)

\* a step of a caller inside ProcessModule.execute: it enters "with
\* self._lock:" or its _execute runs to its end
Proceed(t) ==
    \/ Acquire(t)
    \/ RunPass(t)
    \/ RunGoal(t)
    \/ RunMissing(t)
    \/ RunDetectReal(t)
    \/ RunFilter(t)
    \/ RunSetPose(t)
    \/ RunArm(t)
    \/ RunLocal(t)

InitOnce == InitProc /\ mode \in {"simulated", "real"}

NextOnce == \E t \in Callers : RequestOnce(t) \/ Proceed(t)

SpecOnce == InitOnce /\ [][NextOnce]_vars

\* every _execute terminates, and a thread blocked on a lock that stays free
\* gets it
SpecOnceFair == SpecOnce /\ \A t \in Callers : WF_vars(Proceed(t))


\* ----- SpecTurn: callers of the real capabilities that send a goal, every
\* call of _execute is a step
\* two capabilities whose real _execute goes through an achieve_*_goal
\* function, one of them after a collision-policy call
MotionCapabilities == {"navigate", "looking"}

\* a request for one of them
RequestMotion(t) ==
    /\ Request(t)
    /\ cap'[t] \in MotionCapabilities
    /\ Head(todo'[t]).kind \in {"policy", "sync"}

\* the steps of a real _execute that sends a goal, and of execute around it
MotionStep(t) ==
    \/ RequestMotion(t)
    \/ Acquire(t)
    \/ CallPolicy(t)
    \/ CallSyncWorlds(t)
    \/ CallSetGoal(t)
    \/ CallPlanAndExecute(t)
    \/ Release(t)

\* the robot alone in the World Model, and in Giskard
InitTurn ==
    /\ mode = "real"
    /\ InitProcIdle
    /\ InitDemoIdle
    /\ InitWorld({RobotObj}, {RobotName})

NextTurn == \E t \in Callers : MotionStep(t) \/ PlannerAnswers(t)

SpecTurn == InitTurn /\ [][NextTurn]_vars


\* ----- SpecRace: SpecTurn with every remote call of sync_worlds a step of
\* its own, in a World Model that does not change. last, pre, calls,
\* prevSyncOk and partial describe a sync_worlds call as a whole and are not
\* kept here; every spawn is accepted.
\* sync_worlds, lines 50-53: get_group_names() and the test for a clear
SyncReadGroups(t) ==
    /\ At(t, "sync")
    /\ trace' = [trace EXCEPT ![t] = Append(@, Head(todo[t]).name)]
    /\ todo' = [todo EXCEPT ![t] =
                  (IF NeedsClear(objects, groups)
                   THEN <<Step("clear", "clear_world")>> ELSE <<>>)
                  \o <<Step("read", "get_group_names")>> \o Tail(@)]
    /\ UNCHANGED <<mode, pc, cap, held, outcome, nrel>>
    /\ UNCHANGED obsVars
    /\ UNCHANGED syncVars
    /\ UNCHANGED demoVars

\* sync_worlds, line 54: giskard_wrapper.clear_world()
SyncClearWorld(t) ==
    /\ At(t, "clear")
    /\ groups' = clear_world(groups)
    /\ gpose' = [n \in GroupNames |-> IF n \in clear_world(groups) THEN gpose[n] ELSE 0]
    /\ todo' = [todo EXCEPT ![t] = Tail(@)]
    /\ UNCHANGED <<objects, pose, last, pre, calls, prevSyncOk, partial>>
    /\ UNCHANGED <<mode, pc, cap, held, trace, outcome, nrel>>
    /\ UNCHANGED obsVars
    /\ UNCHANGED demoVars

\* the spawn_object calls for the objects of the list sp
SpawnSteps(sp) == [i \in 1..Len(sp) |-> Step("spawn", ObjName(sp[i]))]

\* initial_adding_objects, lines 23-28: get_group_names(), and the objects
\* whose name is not among the names read are the ones to spawn
AddingReadGroups(t) ==
    /\ At(t, "read")
    /\ todo' = [todo EXCEPT ![t] = SpawnSteps(ById(ToSpawn(objects, groups))) \o Tail(@)]
    /\ UNCHANGED <<mode, pc, cap, held, trace, outcome, nrel>>
    /\ UNCHANGED obsVars
    /\ UNCHANGED syncVars
    /\ UNCHANGED demoVars

\* initial_adding_objects, line 29: spawn_object(obj); a name Giskard has
\* already is answered with an error and changes nothing
AddingSpawn(t) ==
    /\ At(t, "spawn")
    /\ LET n == Head(todo[t]).name
       IN  /\ groups' = add_urdf(groups, n)
           /\ gpose' = IF n \in groups THEN gpose
                       ELSE [gpose EXCEPT ![n] = pose[CHOOSE o \in objects : ObjName(o) = n]]
    /\ todo' = [todo EXCEPT ![t] = Tail(@)]
    /\ UNCHANGED <<objects, pose, last, pre, calls, prevSyncOk, partial>>
    /\ UNCHANGED <<mode, pc, cap, held, trace, outcome, nrel>>
    /\ UNCHANGED obsVars
    /\ UNCHANGED demoVars

\* the steps of a real _execute that sends a goal, those of sync_worlds apart
RaceStep(t) ==
    \/ RequestMotion(t)
    \/ Acquire(t)
    \/ CallPolicy(t)
    \/ SyncReadGroups(t)
    \/ SyncClearWorld(t)
    \/ AddingReadGroups(t)
    \/ AddingSpawn(t)
    \/ CallSetGoal(t)
    \/ CallPlanAndExecute(t)
    \/ Release(t)

\* the robot and a cup in the World Model; Giskard holds the robot and a
\* table that is no longer in the World Model
InitRace ==
    /\ mode = "real"
    /\ InitProcIdle
    /\ InitDemoIdle
    /\ InitWorld({RobotObj, CupObj}, {RobotName, ObjName(TableObj)})

NextRace == \E t \in Callers : RaceStep(t) \/ PlannerAnswers(t)

SpecRace == InitRace /\ [][NextRace]_vars

\* ------------------------------------ SpecDemo: pre_robocup_receptionist.py
\* the messages of topic nlp_out, already split at the commas: the tag, the
\* name and the drink the speech recogniser understood
Messages ==
    {<<g, n, d>> : g \in {"<GUEST>", "<NONE>"}, n \in {"None", "Bob"}, d \in {"None", "tea"}}

\* data_cb: the fields of the message, and "None" appended
data_cb(data) == Append(data, "None")

\* response[k] of Python
Item(r, k) == r[k + 1]

HumanDescription_set_name(g, n) == [g EXCEPT !.name = n]
HumanDescription_set_drink(g, d) == [g EXCEPT !.fav_drink = d]

\* welcome_guest, lines 281-298 and 324-343: what a "<GUEST>" answer r puts
\* into the guest
Stored(g, r) ==
    IF Item(r, 1) # "None" /\ Item(r, 2) # "None"
    THEN HumanDescription_set_name(HumanDescription_set_drink(g, Item(r, 2)), Item(r, 1))
    ELSE IF Item(r, 1) = "None"
         THEN HumanDescription_set_drink(g, Item(r, 2))
         ELSE HumanDescription_set_name(g, Item(r, 1))

\* ... and where welcome_guest goes on: to name_repeat(), to drink_repeat(),
\* or past the questions
AfterAnswer(r) ==
    IF Item(r, 1) # "None" /\ Item(r, 2) # "None" THEN "attributes"
    ELSE IF Item(r, 1) = "None" THEN "name_wait"
         ELSE "drink_wait"

\* the speech recogniser answers, and rospy calls data_cb
NlpAnswers ==
    /\ dpc \in {"first_wait", "repeat_wait", "name_wait", "drink_wait"}
    /\ ~callback
    /\ \E m \in Messages : response' = data_cb(m)
    /\ callback' = TRUE
    /\ UNCHANGED <<dpc, repeat_i, asked, guest>>
    /\ UNCHANGED <<counter, found_guest, found_host, unknown>>
    /\ UNCHANGED <<syncVars, procVars>>

\* welcome_guest, lines 243-268: up to the first question
welcome_guest ==
    /\ dpc = "welcome"
    /\ dpc' = "first_wait"
    /\ UNCHANGED <<callback, response, repeat_i, asked, guest>>
    /\ UNCHANGED <<counter, found_guest, found_host, unknown>>
    /\ UNCHANGED <<syncVars, procVars>>

\* welcome_guest, lines 271-308: the first answer has arrived
FirstAnswer ==
    /\ dpc = "first_wait"
    /\ callback
    /\ callback' = FALSE
    /\ IF Item(response, 0) = "<GUEST>"
       THEN /\ guest' = Stored(guest, response)
            /\ dpc' = AfterAnswer(response)
            /\ UNCHANGED repeat_i
       ELSE /\ repeat_i' = 0
            /\ dpc' = "repeat"
            /\ UNCHANGED guest
    /\ UNCHANGED <<response, asked>>
    /\ UNCHANGED <<counter, found_guest, found_host, unknown>>
    /\ UNCHANGED <<syncVars, procVars>>

\* welcome_guest, lines 309-314: the test "while i < 2" and the request to
\* repeat name and drink; nothing in the loop assigns i
RepeatLoop ==
    /\ dpc = "repeat"
    /\ IF repeat_i < 2
       THEN /\ asked < MaxAsks
            /\ asked' = asked + 1
            /\ dpc' = "repeat_wait"
       ELSE /\ dpc' = "attributes"
            /\ UNCHANGED asked
    /\ UNCHANGED <<callback, response, repeat_i, guest>>
    /\ UNCHANGED <<counter, found_guest, found_host, unknown>>
    /\ UNCHANGED <<syncVars, procVars>>

\* welcome_guest, lines 316-350: the answer to the request to repeat; every
\* path of a "<GUEST>" answer ends in break, no other path leaves the loop
RepeatAnswer ==
    /\ dpc = "repeat_wait"
    /\ callback
    /\ callback' = FALSE
    /\ IF Item(response, 0) = "<GUEST>"
       THEN /\ guest' = Stored(guest, response)
            /\ dpc' = AfterAnswer(response)
       ELSE /\ dpc' = "repeat"
            /\ UNCHANGED guest
    /\ UNCHANGED <<response, repeat_i, asked>>
    /\ UNCHANGED <<counter, found_guest, found_host, unknown>>
    /\ UNCHANGED <<syncVars, procVars>>

\* name_repeat(): asks until a "<GUEST>" answer carries a name
name_repeat ==
    /\ dpc = "name_wait"
    /\ callback
    /\ callback' = FALSE
    /\ IF Item(response, 0) = "<GUEST>" /\ Item(response, 1) # "None"
       THEN /\ guest' = HumanDescription_set_name(guest, Item(response, 1))
            /\ dpc' = "attributes"
       ELSE UNCHANGED <<guest, dpc>>
    /\ UNCHANGED <<response, repeat_i, asked>>
    /\ UNCHANGED <<counter, found_guest, found_host, unknown>>
    /\ UNCHANGED <<syncVars, procVars>>

\* drink_repeat(): asks until a "<GUEST>" answer carries a drink
drink_repeat ==
    /\ dpc = "drink_wait"
    /\ callback
    /\ callback' = FALSE
    /\ IF Item(response, 0) = "<GUEST>" /\ Item(response, 2) # "None"
       THEN /\ guest' = HumanDescription_set_drink(guest, Item(response, 2))
            /\ dpc' = "attributes"
       ELSE UNCHANGED <<guest, dpc>>
    /\ UNCHANGED <<response, repeat_i, asked>>
    /\ UNCHANGED <<counter, found_guest, found_host, unknown>>
    /\ UNCHANGED <<syncVars, procVars>>

\* welcome_guest, lines 352-376: the attributes are taken and the guest is
\* returned
WelcomeReturns ==
    /\ dpc = "attributes"
    /\ dpc' = "returned"
    /\ UNCHANGED <<callback, response, repeat_i, asked, guest>>
    /\ UNCHANGED <<counter, found_guest, found_host, unknown>>
    /\ UNCHANGED <<syncVars, procVars>>

\* step 7, lines 639-681: a detection that returns the faces of keys: those
\* of guest1.id, of host.id, and of an id that is neither
DetectionReturns ==
    /\ dpc = "detect"
    /\ \E keys \in SUBSET {"guest1", "host", "other"} :
        /\ counter' = counter + 1
        /\ found_guest' = (found_guest \/ "guest1" \in keys)
        /\ found_host' = (found_host \/ "host" \in keys)
        /\ unknown' = IF "other" \in keys THEN <<"other">> ELSE <<>>
        /\ dpc' = IF counter' > 4 \/ (found_guest' /\ found_host')
                  THEN "failure_handling" ELSE "detect"
    /\ UNCHANGED <<callback, response, repeat_i, asked, guest>>
    /\ UNCHANGED <<syncVars, procVars>>

\* step 7, lines 639-641 and 683-690: the detection raises
\* PerceptionObjectNotFound; the handler counts and the loop goes on
DetectionRaises ==
    /\ dpc = "detect"
    /\ counter < MaxTries
    /\ counter' = counter + 1
    /\ unknown' = <<>>
    /\ UNCHANGED <<dpc, found_guest, found_host>>
    /\ UNCHANGED <<callback, response, repeat_i, asked, guest>>
    /\ UNCHANGED <<syncVars, procVars>>

\* demo(step) with step 1, at the call of welcome_guest, or with step 7, at
\* the detection loop; the process modules idle and Giskard as launched
InitDemo ==
    /\ mode = "real"
    /\ InitProcIdle
    /\ objects = {}
    /\ pose = [o \in Objects |-> 0]
    /\ groups = {RobotName}
    /\ gpose = [n \in GroupNames |-> 0]
    /\ last = [op |-> "init", result |-> "returned"]
    /\ pre = NoPre
    /\ calls = <<>>
    /\ prevSyncOk = FALSE
    /\ partial = FALSE
    /\ dpc \in {"welcome", "detect"}
    /\ callback = FALSE
    /\ response = <<>>
    /\ repeat_i = 0
    /\ asked = 0
    /\ guest = guest1
    /\ counter = 0
    /\ found_guest = FALSE
    /\ found_host = FALSE
    /\ unknown = <<>>

NextDemo ==
    \/ NlpAnswers
    \/ welcome_guest
    \/ FirstAnswer
    \/ RepeatLoop
    \/ RepeatAnswer
    \/ name_repeat
    \/ drink_repeat
    \/ WelcomeReturns
    \/ DetectionReturns
    \/ DetectionRaises

SpecDemo == InitDemo /\ [][NextDemo]_vars


\* ================================================= claims on the dispatcher
\* C1: no two executions of the same capability are in progress at once, and
\* all process modules handed out for a capability carry the same lock, which
\* the one in progress holds.
C1_MutualExclusion ==
    \A t, u \in Callers :
        /\ (t # u /\ pc[t] = "run" /\ pc[u] = "run") => cap[t] # cap[u]
        /\ (pc[t] \in {"acquire", "run"} /\ pc[u] \in {"acquire", "run"} /\ cap[t] = cap[u])
              => LockGiven(cap[t], t) = LockGiven(cap[u], u)
        /\ pc[t] = "run" => <<LockGiven(cap[t], t), t>> \in held

\* C1 witness: one caller executes navigate while another, who asked for
\* navigate too, is blocked.
C1_Witness ==
    \E t, u \in Callers :
        /\ pc[t] = "run" /\ cap[t] = "navigate"
        /\ pc[u] = "acquire" /\ cap[u] = "navigate"

\* C2: a caller is blocked only by an execution of the capability it asked
\* for: the twelve capabilities use twelve distinct locks of the manager.
C2_NoCrossBlocking ==
    /\ \A t \in Callers : \A h \in held :
          (pc[t] = "acquire" /\ h[1] = LockGiven(cap[t], t)) => cap[h[2]] = cap[t]
    /\ \A c \in Capabilities : MethodLock(c) \in LockFields
    /\ \A c, d \in Capabilities : c # d => MethodLock(c) # MethodLock(d)

\* C2 witness: open and close are in progress at the same time.
C2_Witness ==
    \E t, u \in Callers :
        /\ pc[t] = "run" /\ cap[t] = "open"
        /\ pc[u] = "run" /\ cap[u] = "close"

\* C3: an invocation that acquired the lock has released it exactly once when
\* it is over, however _execute ended; a lock is held only by a caller whose
\* execution is in progress.
C3_LockReleasedOnce ==
    \A t \in Callers :
        /\ (pc[t] = "done" /\ outcome[t] # "NoneType") => nrel[t] = 1
        /\ pc[t] # "run" => ~Holds(t)
        /\ pc[t] = "run" => (nrel[t] = 0 /\ Cardinality({h \in held : h[2] = t}) = 1)

\* C3 witness: one invocation ended with the AttributeError of a function that
\* giskard.py does not define, another with the IndexError of
\* world-state-detect, and no lock is held.
C3_Witness ==
    /\ mode = "real"
    /\ held = {}
    /\ \E t, u \in Callers :
        /\ pc[t] = "done" /\ outcome[t] = "AttributeError" /\ nrel[t] = 1
        /\ pc[u] = "done" /\ outcome[u] = "IndexError" /\ nrel[u] = 1

\* =========================================== claims on the order of the calls
PolicyCalls == {"avoid_all_collisions"}
GoalCalls ==
    {"set_joint_goal", "set_cart_goal", "set_straight_cart_goal",
     "set_translation_goal", "set_straight_translation_goal", "set_rotation_goal",
     "set_align_planes_goal", "set_open_container_goal", "set_close_container_goal"}

\* C10 (as claimed): every goal is preceded by the reconcile and then the
\* collision policy, is followed by the wait, and no collision-policy call
\* precedes the reconcile.
C10_ReconcileThenPolicy ==
    \A t \in Callers : \A j \in 1..Len(trace[t]) :
        /\ trace[t][j] \in GoalCalls =>
              \E i, p \in 1..j :
                  /\ i < p /\ p < j
                  /\ trace[t][i] = "sync_worlds"
                  /\ trace[t][p] \in PolicyCalls
        /\ trace[t][j] \in PolicyCalls =>
              \E i \in 1..j : i < j /\ trace[t][i] = "sync_worlds"
        /\ trace[t][j] = "plan_and_execute" =>
              \E i \in 1..j : i < j /\ trace[t][i] \in GoalCalls

\* C10 (amended): the collision policy, when one is applied, is the first
\* call; the goal is set right after the reconcile and plan_and_execute
\* follows right after the goal; no collision-policy call follows the
\* reconcile.
C10_PolicyThenReconcile ==
    \A t \in Callers : \A j \in 1..Len(trace[t]) :
        /\ trace[t][j] \in PolicyCalls => j = 1
        /\ trace[t][j] \in GoalCalls => (j > 1 /\ trace[t][j - 1] = "sync_worlds")
        /\ trace[t][j] = "plan_and_execute" => (j > 1 /\ trace[t][j - 1] \in GoalCalls)
        /\ trace[t][j] = "sync_worlds" => \A i \in 1..(j - 1) : trace[t][i] \in PolicyCalls

\* C10 witness: a real look that ran to its end.
C10_Witness ==
    \E t \in Callers :
        /\ pc[t] = "done"
        /\ cap[t] = "looking"
        /\ outcome[t] = "returned"
        /\ trace[t] = <<"avoid_all_collisions", "sync_worlds", "set_joint_goal",
                        "plan_and_execute">>

\* the calls of the invocation of caller t, and the last of them
Calls(t) == {trace[t][j] : j \in 1..Len(trace[t])}
LastCall(t) == IF trace[t] = <<>> THEN "none" ELSE trace[t][Len(trace[t])]

\* C11 (as claimed): an invocation of a capability that submits a goal has
\* made a collision-policy call before it submits the goal.
C11_PolicyBeforeEachGoal ==
    \A t \in Callers : \A j \in 1..Len(trace[t]) :
        (cap[t] \in Capabilities /\ trace[t][j] \in GoalCalls)
            => \E p \in 1..j : p < j /\ trace[t][p] \in PolicyCalls

\* C12: a goal is set only right after a sync_worlds that returned, in the
\* same goal function; when sync_worlds raises, it is the last call: no goal
\* is set and plan_and_execute is not called.
C12_NoGoalWithoutReconcile ==
    \A t \in Callers :
        /\ \A j \in 1..Len(trace[t]) :
              /\ trace[t][j] \in GoalCalls =>
                    (j > 1 /\ trace[t][j - 1] = "sync_worlds")
              /\ trace[t][j] = "plan_and_execute" =>
                    (j > 2 /\ trace[t][j - 1] \in GoalCalls
                           /\ trace[t][j - 2] = "sync_worlds")
        /\ outcome[t] = "SyncFailed" =>
              /\ LastCall(t) = "sync_worlds"
              /\ Calls(t) \cap (GoalCalls \cup {"plan_and_execute"}) = {}
              /\ answer[t] = "none"
              /\ todo[t] = <<>>

\* C12 witness: achieve_rotation_goal, called by itself, was left by the
\* exception of a spawn of its sync_worlds.
C12_Witness ==
    \E t \in Callers :
        /\ pc[t] = "done"
        /\ cap[t] = "none"
        /\ outcome[t] = "SyncFailed"
        /\ trace[t] = <<"sync_worlds">>
        /\ ObjName(CupObj) \notin groups

\* ===================================================== claims on sync_worlds
SyncRan == last.op = "sync_worlds"
SyncReturned == SyncRan /\ last.result = "returned"

\* the identifiers of the non-robot bodies of the World Model
LocalNames(objs) == {ObjName(o) : o \in objs \ {RobotObj}}

\* the remote identifiers that belong to no body of the World Model and are
\* not the robot
StaleNames(objs, g) == {n \in g : n # RobotName /\ \A o \in objs : ObjName(o) # n}

Cleared == \E i \in 1..Len(calls) : calls[i].op = "clear_world"
SpawnedAt(i) == calls[i].op = "add_urdf"
SpawnedNames == {calls[i].name : i \in {j \in 1..Len(calls) : SpawnedAt(j)}}

\* C4: after sync_worlds returned, the remote identifier set contains the
\* identifier of every non-robot body of the World Model, and the robot.
C4_RemoteContainsLocal ==
    SyncReturned => (LocalNames(objects) \cup {RobotName}) \subseteq groups

\* C4 witness: a sync_worlds that returned on a World Model with two non-robot
\* bodies and a remote state that held a stale identifier.
C4_Witness ==
    /\ SyncReturned
    /\ Cardinality(LocalNames(pre.objects)) >= 2
    /\ StaleNames(pre.objects, pre.groups) # {}
    /\ LocalNames(pre.objects) \cap pre.groups = {}

\* C5 (as claimed): after sync_worlds returned, the remote identifier set is
\* exactly the identifiers of the non-robot bodies plus the robot.
C5_RemoteEqualsLocal ==
    SyncReturned => groups = LocalNames(objects) \cup {RobotName}

\* C6: a sync_worlds that follows a sync_worlds that returned, with nothing in
\* between, sends no mutation to the remote belief state.
C6_Idempotent ==
    (SyncRan /\ prevSyncOk) => (calls = <<>> /\ groups = pre.groups /\ gpose = pre.gpose)

\* C6 witness: the second of two sync_worlds in a row, on a World Model with
\* non-robot bodies that the remote state holds.
C6_Witness ==
    /\ SyncReturned
    /\ prevSyncOk
    /\ Cardinality(LocalNames(objects)) >= 2
    /\ LocalNames(objects) \subseteq groups

\* C7: sync_worlds clears the remote state exactly when it holds an identifier
\* that is neither a body of the World Model nor the robot; after a clear it
\* spawns every non-robot body; World Model {robot, cup_1, bowl_2} and remote
\* {robot, table_9} end in remote {robot, cup_1, bowl_2}.
C7_ClearIffStale ==
    /\ SyncRan => (Cleared <=> StaleNames(pre.objects, pre.groups) # {})
    /\ (SyncReturned /\ Cleared) => SpawnedNames = LocalNames(pre.objects)
    /\ (/\ SyncReturned
        /\ pre.objects = {RobotObj, CupObj, BowlObj}
        /\ pre.groups = {RobotName, ObjName(TableObj)})
       => groups = {RobotName, ObjName(CupObj), ObjName(BowlObj)}

\* C7 witness: the scenario, after sync_worlds returned.
C7_Witness ==
    /\ SyncReturned
    /\ pre.objects = {RobotObj, CupObj, BowlObj}
    /\ pre.groups = {RobotName, ObjName(TableObj)}
    /\ Cleared

\* the group names initial_adding_objects finds: those before the call, or
\* the robot alone after a clear
GroupsReRead == IF Cleared THEN {RobotName} ELSE pre.groups

\* C8: the spawns of one sync_worlds are the non-robot bodies absent from the
\* remote set as re-read after any clear, each once (all of them when it
\* returns, some of them when a spawn raises); the robot is never spawned
\* and no remove is sent.
C8_SpawnsExactlyMissing ==
    SyncRan =>
        /\ SpawnedNames \subseteq LocalNames(pre.objects) \ GroupsReRead
        /\ SyncReturned => SpawnedNames = LocalNames(pre.objects) \ GroupsReRead
        /\ \A i, j \in 1..Len(calls) :
              (SpawnedAt(i) /\ SpawnedAt(j) /\ calls[i].name = calls[j].name) => i = j
        /\ \A i \in 1..Len(calls) :
              /\ calls[i].op # "remove_group"
              /\ SpawnedAt(i) => calls[i].name \notin {RobotName, ObjName(RobotObj)}

\* C8 witness: a sync_worlds without a clear on a World Model with the robot,
\* one body the remote state held already and one it spawned.
C8_Witness ==
    /\ SyncReturned
    /\ ~Cleared
    /\ RobotObj \in pre.objects
    /\ LocalNames(pre.objects) \cap pre.groups # {}
    /\ SpawnedNames # {}

\* the bodies that were in the remote state when sync_worlds started, with a
\* World Model pose that differs from the remote one
MovedSinceSpawn ==
    {o \in pre.objects : ObjName(o) \in pre.groups /\ pre.pose[o] # pre.gpose[ObjName(o)]}

\* sync_worlds sent no mutation for o and left its remote pose alone
Untouched(o) ==
    /\ ~Cleared
    /\ \A i \in 1..Len(calls) : calls[i].name # ObjName(o)
    /\ ObjName(o) \in groups
    /\ gpose[ObjName(o)] = pre.gpose[ObjName(o)]

\* C9 (as claimed): sync_worlds sends no mutation for a body that exists
\* remotely and has moved: its remote pose changes only through update_pose.
C9_NoMutationForMovedBody ==
    SyncRan => \A o \in MovedSinceSpawn : Untouched(o)

\* C9 (amended): sync_worlds never sends a pose update, and unless it clears
\* the remote state it sends no mutation for a body that exists remotely and
\* has moved; the remote pose of a group that stays changes only through
\* update_pose or through the clear and re-spawn of sync_worlds.
C9_NoPoseUpdateUnlessCleared ==
    /\ [](SyncRan =>
            /\ \A i \in 1..Len(calls) : calls[i].op # "update_group_pose"
            /\ ~Cleared => \A o \in MovedSinceSpawn : Untouched(o))
    /\ [][\A n \in groups \cap groups' :
            gpose'[n] # gpose[n] =>
                \/ last'.op = "update_pose"
                \/ /\ last'.op = "sync_worlds"
                   /\ Len(calls') > 0
                   /\ calls'[1].op = "clear_world"]_vars

\* C9 witness: sync_worlds returned without a clear on a World Model whose cup
\* had moved since it was spawned.
C9_Witness ==
    /\ SyncReturned
    /\ ~Cleared
    /\ CupObj \in MovedSinceSpawn
    /\ gpose[ObjName(CupObj)] # pose[CupObj]

\* ============================================ claims on failures and results
\* C13 (as claimed): when Giskard answers a goal of a capability with a
\* failed or rejected result, the invocation ends in GoalFailed or
\* GoalRejected, and its lock is released.
C13_PlannerFailureSurfaces ==
    \A t \in Callers :
        (pc[t] = "done" /\ cap[t] \in Capabilities /\ answer[t] \in {"FAILED", "REJECTED"})
            => (outcome[t] \in {"GoalFailed", "GoalRejected"} /\ ~Holds(t))

\* C14 (as claimed): a caller that waits for the result of its goal does not
\* wait for ever: without an answer the wait ends (with GoalTimedOut).
C14_GoalTimesOut ==
    \A t \in Callers : (answer[t] = "pending") ~> (answer[t] # "pending")

\* C15 (as claimed): no request ends with the manager method having returned
\* None for want of an implementation under the mode (the caller's execute on
\* it then raising the AttributeError of NoneType).
C15_UnsupportedCapabilityRaised ==
    \A t \in Callers : pc[t] = "done" => outcome[t] # "NoneType"

\* C16 (as claimed): a detection never returns None as its result and never
\* ends in an IndexError.
C16_NotFoundIsTyped ==
    \A t \in Callers :
        (pc[t] = "done" /\ cap[t] \in {"detecting", "world_state_detecting"})
            => /\ outcome[t] # "IndexError"
               /\ ~(outcome[t] = "returned" /\ ret[t] = "None")

\* the calls that go to Giskard or to the perception service
RemoteCalls == PolicyCalls \cup GoalCalls \cup {"sync_worlds", "plan_and_execute", "query"}

\* C17 (as claimed): a real capability invoked with a malformed designator
\* makes no remote call (no policy, no sync_worlds, no goal, no perception
\* query) and ends in InvalidIntent.
C17_InvalidIntentRejected ==
    \A t \in Callers :
        (mode = "real" /\ intent[t] = "malformed")
            => /\ Calls(t) \cap RemoteCalls = {}
               /\ pc[t] = "done" => outcome[t] = "InvalidIntent"

\* the identifiers whose add_urdf Giskard answered with an error: sent, and
\* not in the belief state
RejectedNames == SpawnedNames \ groups

\* C18 (as claimed): when Giskard answered a spawn of sync_worlds with an
\* error, sync_worlds is left by an exception (SyncFailed) and is the last
\* call: the goal is not set.
C18_SpawnErrorSurfaces ==
    \A t \in Callers :
        (LastCall(t) \in {"sync_worlds", "plan_and_execute"} \cup GoalCalls
         /\ RejectedNames # {})
            => (outcome[t] = "SyncFailed" /\ LastCall(t) = "sync_worlds")

\* C19: whatever sync_worlds calls that did not complete and whatever
\* additions and removals came before, a sync_worlds that returns with every
\* spawn accepted leaves the remote identifiers equal to those of the
\* non-robot bodies plus the robot.
C19_RepairedByNextSync ==
    SyncReturned =>
        /\ objects = pre.objects
        /\ groups = LocalNames(pre.objects) \cup {RobotName}
        /\ ~partial

\* C19 witness: sync_worlds returned on a remote state that an incomplete
\* sync_worlds had left, and that held a stale identifier and lacked a body
\* when the call started.
C19_Witness ==
    /\ SyncReturned
    /\ pre.partial
    /\ StaleNames(pre.objects, pre.groups) # {}
    /\ LocalNames(pre.objects) \ pre.groups # {}
    /\ Cardinality(LocalNames(pre.objects)) >= 2

\* C20 (as claimed): every capability has an implementation under
\* "simulated" and a different one under "real".
C20_TwoImplementations ==
    \A m \in {"simulated", "real"} \ {mode} :
        mode \in {"simulated", "real"} =>
            /\ \A c \in Capabilities :
                  /\ Impl(c, mode) # "None"
                  /\ Impl(c, m) # "None"
                  /\ Impl(c, mode) # Impl(c, m)
            /\ DonbotImpl("looking", mode) # "None"
            /\ DonbotImpl("looking", m) # "None"
            /\ DonbotImpl("looking", mode) # DonbotImpl("looking", m)

\* C20 (amended): every HSRB capability has an implementation under
\* "simulated" and one under "real", the same for world_state_detecting and
\* different ones for the other eleven; Donbot looking has one under
\* "simulated" only; a process module is at work only under these two modes.
C20_ImplementationsByMode ==
    /\ \A c \in Capabilities :
          /\ Impl(c, "simulated") # "None"
          /\ Impl(c, "real") # "None"
          /\ (Impl(c, "simulated") = Impl(c, "real")) <=> (c = "world_state_detecting")
    /\ DonbotImpl("looking", "simulated") # "None"
    /\ DonbotImpl("looking", "real") = "None"
    /\ \A t \in Callers :
          /\ (pc[t] = "run" /\ cap[t] \in Capabilities) => mode \in {"simulated", "real"}
          /\ (pc[t] = "run" /\ cap[t] = DonbotLooking) => mode = "simulated"

\* C20 witness: under "real", world_state_detecting runs the process module
\* of the simulation.
C20_Witness ==
    /\ mode = "real"
    /\ \E t \in Callers :
        /\ pc[t] = "run"
        /\ cap[t] = "world_state_detecting"
        /\ todo[t] = <<Step("filter", SimClass("world_state_detecting"))>>

\* ======================================= claims on what the capabilities do
\* the kinds of the calls that reach Giskard or the perception service
RemoteKinds == {"policy", "sync", "goal", "execute", "detect_real"}

\* a caller is inside the invocation of a capability of a manager
InCapability(t) == pc[t] = "run" /\ cap[t] # "none"

\* C21: under "simulated" the invocation of a capability makes no call to
\* Giskard and has none ahead, and no step taken inside an invocation changes
\* the remote belief state.
C21_SimulatedStaysLocal ==
    /\ [](mode = "simulated" =>
            \A t \in Callers :
                cap[t] # "none" =>
                    /\ Calls(t) \cap RemoteCalls = {}
                    /\ \A j \in 1..Len(todo[t]) : todo[t][j].kind \notin RemoteKinds
                    /\ answer[t] = "none")
    /\ [][(mode = "simulated" /\ \E t \in Callers : InCapability(t))
            => (groups' = groups /\ gpose' = gpose /\ calls' = calls)]_vars

\* C21 witness: a simulated navigate moved the robot in the World Model while
\* Giskard still holds the stale identifier it was started with.
C21_Witness ==
    /\ mode = "simulated"
    /\ ObjName(TableObj) \in groups
    /\ pose[RobotObj] # 0
    /\ gpose[RobotName] = 0
    /\ \E t \in Callers :
        /\ pc[t] = "done"
        /\ cap[t] = "navigate"
        /\ outcome[t] = "returned"
        /\ trace[t] = <<"HSRBNavigation">>

\* C22: callers that ask for a capability at the same time all complete, and
\* a caller enters its _execute only when no execution of the same capability
\* is in progress and the lock of the capability is free: the one that gets
\* the lock second starts after the first has finished and released it.
C22_BothCompleteInTurn ==
    /\ \A t \in Callers : (pc[t] \in {"acquire", "run"}) ~> (pc[t] = "done")
    /\ [][\A t \in Callers :
            (pc[t] # "run" /\ pc'[t] = "run") =>
                /\ \A u \in Callers \ {t} : ~(pc[u] = "run" /\ cap[u] = cap'[t])
                /\ \A h \in held : h[1] # LockGiven(cap'[t], t)]_vars

\* C22 witness: two callers asked for navigate; the first has finished, moved
\* the robot and released the lock, the second is still waiting to start.
C22_Witness ==
    /\ mode = "simulated"
    /\ pose[RobotObj] # 0
    /\ held = {}
    /\ \E t, u \in Callers :
        /\ pc[t] = "done" /\ outcome[t] = "returned" /\ nrel[t] = 1
        /\ pc[u] = "acquire" /\ cap[u] = "navigate"

\* C23, as claimed: goals of one capability are submitted in the order of the
\* requests. A caller that asks for a capability while another caller is
\* already waiting for it does not enter _execute ahead of the one waiting
\* (once it has, its goal is the next one of the capability to be submitted).
C23_SubmittedInRequestOrder ==
    [][\A a, b \in Callers :
        (a # b /\ pc[a] = "acquire" /\ pc[b] \in {"idle", "done"} /\ cap'[b] = cap[a])
            => pc'[b] # "run"]_vars

\* a goal call is made by caller t in this step
SubmitsGoal(t) ==
    /\ Len(trace'[t]) = Len(trace[t]) + 1
    /\ trace'[t][Len(trace'[t])] \in GoalCalls

\* C23, amended: goals of one capability are submitted in the order in which
\* the callers got the lock of the capability. The caller that submits holds
\* the lock; no other execution of the capability is in progress, and a caller
\* still waiting for the lock has submitted nothing.
C23_SubmittedInLockOrder ==
    [][\A t \in Callers : SubmitsGoal(t) =>
        /\ <<LockGiven(cap[t], t), t>> \in held
        /\ \A u \in Callers \ {t} : cap[u] = cap[t] =>
            /\ pc[u] # "run"
            /\ pc[u] = "acquire" => Calls(u) \cap GoalCalls = {}]_vars

\* C23 witness: two navigate requests; the one that got the lock first has
\* submitted its goal and is over, the other has now submitted its own.
C23_Witness ==
    \E t, u \in Callers :
        /\ t # u
        /\ cap[t] = "navigate" /\ pc[t] = "done" /\ nrel[t] = 1
        /\ "set_cart_goal" \in Calls(t)
        /\ cap[u] = "navigate" /\ pc[u] = "run"
        /\ LastCall(u) = "set_cart_goal"

\* the number of calls of caller t, in this invocation, to a function of names
Count(t, names) == Cardinality({j \in 1..Len(trace[t]) : trace[t][j] \in names})

\* C24: one invocation of a real capability makes at most one sync_worlds
\* call, one set_*_goal call and one plan_and_execute call, and once Giskard
\* has answered, whatever the answer, no further call is ahead.
C24_NoRetry ==
    \A t \in Callers :
        (mode = "real" /\ cap[t] \in Capabilities) =>
            /\ Count(t, {"sync_worlds"}) <= 1
            /\ Count(t, GoalCalls) <= 1
            /\ Count(t, {"plan_and_execute"}) <= 1
            /\ answer[t] \in MoveResults => todo[t] = <<>>

\* C24 witness: a real navigate whose goal Giskard could not reach is over
\* after one reconcile, one goal and one plan_and_execute.
C24_Witness ==
    \E t \in Callers :
        /\ mode = "real" /\ cap[t] = "navigate" /\ pc[t] = "done"
        /\ answer[t] = "FAILED"
        /\ trace[t] = <<"sync_worlds", "set_cart_goal", "plan_and_execute">>

\* C25 (as claimed): a real pick-up or place that returned has submitted at
\* least one goal to Giskard.
C25_PickUpPlaceSubmitGoal ==
    \A t \in Callers :
        (mode = "real" /\ cap[t] \in {"pick_up", "place"} /\ pc[t] = "done"
            /\ outcome[t] = "returned")
            => Calls(t) \cap GoalCalls # {}

\* C26 (as claimed): removing_of_objects ends without an error and leaves in
\* Giskard exactly the identifiers it found there that are the robot's or
\* belong to a body of the World Model.
C26_RemovesExactlyStale ==
    last.op = "removing_of_objects" =>
        /\ last.result = "returned"
        /\ groups = pre.groups \ StaleNames(objects, pre.groups)
        /\ \A i \in 1..Len(calls) : calls[i].name # RobotName

\* C27 (as claimed): after sync_worlds returned, the pose Giskard has for the
\* robot is the pose the robot has in the World Model.
C27_RobotMovedBySync ==
    (SyncReturned /\ RobotObj \in objects /\ RobotName \in groups)
        => gpose[RobotName] = pose[RobotObj]

\* C28 (as claimed): the joint goal a real move-arm-joints submits holds every
\* joint of left_arm_poses and of right_arm_poses of the designator, and
\* avoid_all_collisions was called for it.
C28_WholeConfigurationSent ==
    \A t \in Callers :
        (mode = "real" /\ cap[t] = "move_arm_joints" /\ joints[t].sent) =>
            /\ (joints[t].left \cup joints[t].right) \subseteq joints[t].goal
            /\ "avoid_all_collisions" \in Calls(t)

\* C29 (as claimed): a real move-gripper, and a real move-tcp whose designator
\* has allow_gripper_collision set, do not end with the AttributeError of a
\* function the module giskard lacks, and unless sync_worlds raised they have
\* submitted a goal when they are over.
C29_GripperAndTcpReachPlanner ==
    \A t \in Callers :
        (mode = "real" /\ pc[t] = "done" /\ cap[t] \in {"move_gripper", "move_tcp"}) =>
            /\ outcome[t] # "AttributeError"
            /\ outcome[t] # "SyncFailed" => Calls(t) \cap GoalCalls # {}

\* C30 (as claimed): in a World Model that does not change, whenever a real
\* capability calls plan_and_execute, Giskard holds the identifier of every
\* non-robot body of the World Model.
C30_RemoteCompleteAtExecute ==
    [][\A t \in Callers :
        (answer[t] = "none" /\ answer'[t] = "pending")
            => LocalNames(objects) \subseteq groups]_vars

\* ================================ claims on capabilities that run together
\* caller t makes its next spawn_object call in this step
Spawns(t) == At(t, "spawn") /\ todo'[t] = Tail(todo[t])

\* C31 (as claimed): no spawn_object call is made for an identifier Giskard
\* holds already, that is, which was spawned and not cleared since.
C31_NoDoubleSpawn ==
    [][\A t \in Callers : Spawns(t) => Head(todo[t]).name \notin groups]_vars

\* caller t calls plan_and_execute in this step
Executes(t) == At(t, "execute") /\ answer[t] = "none" /\ answer'[t] = "pending"

\* C32 (as claimed): the command a plan_and_execute sends holds no collision
\* policy set by another caller, and holds the policy of the caller when the
\* caller set one in this invocation.
C32_PolicyStaysWithItsGoal ==
    [][\A t \in Callers : Executes(t) =>
        /\ cmd_seq.policy \subseteq {t}
        /\ Calls(t) \cap PolicyCalls # {} => t \in cmd_seq.policy]_vars

\* C33 (as claimed): the command a plan_and_execute sends holds the goal the
\* caller set, and no other.
C33_ExecutesItsOwnGoal ==
    [][\A t \in Callers : Executes(t) => cmd_seq.goals = {t}]_vars

\* ==================================== claims on simulated pick-up and place
\* C34: a simulated pick-up or place whose arm motion raised IKError has
\* called neither attach nor detach, and the step that raises leaves the
\* attachments as they were; an object gets attached only in a pick-up whose
\* arm motion has returned; when a place has returned, the object (the one
\* body of this World Model that can be grasped) is not attached.
C34_AttachAfterArmMotion ==
    /\ [](\A t \in Callers :
            (mode = "simulated" /\ cap[t] \in {"pick_up", "place"}) =>
                /\ outcome[t] = "IKError" => Calls(t) \cap {"attach", "detach"} = {}
                /\ (cap[t] = "place" /\ pc[t] = "done" /\ outcome[t] = "returned")
                        => attached = {})
    /\ [][\A t \in Callers :
            (outcome[t] = "none" /\ outcome'[t] = "IKError") => attached' = attached]_vars
    /\ [][~(attached' \subseteq attached) =>
            \E t \in Callers :
                /\ cap[t] = "pick_up" /\ outcome[t] = "none"
                /\ LastCall(t) = "HSRBPickUp"]_vars

\* C34 witness: a simulated pick-up is over with the IKError of its arm motion
\* and nothing is attached.
C34_Witness ==
    \E t \in Callers :
        /\ mode = "simulated" /\ cap[t] = "pick_up" /\ pc[t] = "done"
        /\ outcome[t] = "IKError" /\ nrel[t] = 1
        /\ trace[t] = <<"HSRBPickUp">>
        /\ attached = {}

\* ============================================ claims on remote identifiers
\* the identifier of the one call the last operation sent
SentName == calls[1].name

\* spawn_object returned and has sent its add_urdf
SpawnReturned == last.op = "spawn_object" /\ last.result = "returned" /\ calls # <<>>

\* remove_object of the body that spawn_object has just spawned
RemovesSpawned ==
    /\ SpawnReturned
    /\ last'.op = "remove_object"
    /\ calls'[1].name = SentName

\* the sync_worlds that follows a spawn_object
SyncAfterSpawn == SpawnReturned /\ last'.op = "sync_worlds"

\* what spawn_object, update_pose and remove_object send carries the
\* identifier <<name, id>> of a body of the World Model
SameIdentifier ==
    last.op \in {"spawn_object", "update_pose", "remove_object"} =>
        \A i \in 1..Len(calls) : calls[i].name \in bullet_object_names(objects)

\* C35 as stated: spawn_object, update_pose and remove_object send the
\* identifier the membership test uses; remove_object right after spawn_object
\* of the same body leaves the group names Giskard had before the spawn; the
\* sync_worlds right after a spawn_object does not spawn that body again.
C35_SpawnThenRemoveRestores ==
    /\ []SameIdentifier
    /\ [][RemovesSpawned => groups' = pre.groups]_vars
    /\ [][SyncAfterSpawn =>
            \A i \in 1..Len(calls') :
                ~(calls'[i].op = "add_urdf" /\ calls'[i].name = SentName)]_vars

\* C35, amended: the group names are those before the spawn when the body was
\* not in Giskard before it, and the body is not spawned again unless that
\* sync_worlds cleared Giskard's world.
C35_SpawnThenRemoveRestoresNew ==
    /\ []SameIdentifier
    /\ [][(RemovesSpawned /\ SentName \notin pre.groups) => groups' = pre.groups]_vars
    /\ [][(SyncAfterSpawn /\ ~NeedsClear(objects, groups)) =>
            \A i \in 1..Len(calls') :
                ~(calls'[i].op = "add_urdf" /\ calls'[i].name = SentName)]_vars

\* C35 witness: spawn_object has put a body into Giskard that was not there,
\* with another body of the World Model still to spawn.
C35_Witness ==
    /\ SpawnReturned
    /\ SentName \notin pre.groups
    /\ SentName \in groups
    /\ ToSpawn(objects, groups) # {}

\* ============================================ claims on the demo's loops
\* C36: the repeat loop of welcome_guest asks for name and drink at most
\* twice.
C36_TwoChances == asked <= 2

\* C37: the detection loop of step 7 makes at most five detection tries, five
\* being the bound of its exit test "counter > 4".
C37_BoundedTries == counter <= 5

====
